---- MODULE Spec2Model ----
(***************************************************************************)
(* Model of the Vercel AI Gateway plugin's transport client                *)
(* (typescript/providers/client.ts): GatewayClient.request and the         *)
(* streaming generator GatewayClient.streamText, together with the         *)
(* credential/provider resolution helpers.                                 *)
(*                                                                         *)
(* Text is modelled as sequences of one-character strings.  A streamed     *)
(* chunk payload `{x}` abbreviates the JSON document                       *)
(* `{"choices":[{"delta":{"content":"x"}}]}`; `{}` is a JSON object with   *)
(* no content, `n` is the JSON literal null and `0` a JSON number.         *)
(***************************************************************************)
EXTENDS Integers, Sequences, FiniteSets, TLC

\* ------------------------------------------------------------------ bounds
MaxLines == 2

\* --------------------------------------------------------------- variables
VARIABLES
  call,      \* which client method is running: "request" or "stream"
  pc,        \* position of the call
  exit,      \* how the call finished
  timer,     \* state of the setTimeout handle: "unset","armed","fired","cleared"
  aborted,   \* controller.signal.aborted
  conn,      \* underlying connection: "none","open","closed"
  thrown,    \* exception raised inside the try block
  error,     \* exception the call finally rejects with
  status,    \* response.status once fetch resolved (0 before)
  reply,     \* kind of response body that request read ("none" before)
  body,      \* bytes of the streamed response body
  pos,       \* number of body bytes already handed out by reader.read()
  pending,   \* TextDecoder holds an incomplete multi-byte sequence
  buffer,    \* `buffer`, the unterminated tail carried to the next read
  lines,     \* complete lines of the current read not yet looked at
  yielded,   \* fragments delivered to the consumer so far
  cut,       \* some read ended inside a line or inside a multi-byte character
  settings,  \* runtime.getSetting: key -> value
  env,       \* process.env: key -> value
  preferred, \* resolveProvider's preferredProvider argument
  envKeys,   \* Object.keys(ENV_KEYS), in enumeration order
  resolved,  \* resolveProvider's result ("none" before the call)
  handler,   \* the model handler the runtime invoked ("none" before)
  hpc,       \* position of that handler
  apiKey,    \* config.apiKey as built by buildConfig
  handlerError,  \* error the handler rejected with ("none" if none)
  httpRequests,  \* HTTP requests the handler has issued
  builder,   \* the config builder that ran ("none" before)
  config,    \* the configuration object it returned
  buildError,  \* message of the Error it threw ("none" if none)
  used,      \* the field values a client call put on the wire
  op,        \* the function or handler that was applied ("none" before)
  arg,       \* what it was applied to
  result,    \* what it returned or threw
  hostCalls, \* the calls it made back into the host (emitEvent, onStreamChunk)
  modelsCache,  \* GatewayProvider.modelsCache: null or the cached model list
  inflight   \* the provider calls in progress: call -> method and position

vars == <<call, pc, exit, timer, aborted, conn, thrown, error, status, reply,
          body, pos, pending, buffer, lines, yielded, cut,
          settings, env, preferred, envKeys, resolved,
          handler, hpc, apiKey, handlerError, httpRequests,
          builder, config, buildError, used, op, arg, result, hostCalls,
          modelsCache, inflight>>

hostVars == <<settings, env>>

resolveVars == <<preferred, envKeys, resolved>>

handlerVars == <<handler, hpc, apiKey, handlerError, httpRequests>>

callVars == <<op, arg, result>>

otherVars == <<builder, config, buildError, used, callVars, hostCalls,
               modelsCache, inflight>>

offTransport == <<hostVars, resolveVars, handlerVars, otherVars>>

transportVars == <<call, pc, exit, timer, aborted, conn, thrown, error, status,
                   reply, body, pos, pending, buffer, lines, yielded, cut>>

HostIdle == settings = <<>> /\ env = <<>>

ResolveIdle == preferred = "none" /\ envKeys = <<>> /\ resolved = "none"

HandlerIdle ==
  /\ handler = "none" /\ hpc = "idle" /\ apiKey = ""
  /\ handlerError = "none" /\ httpRequests = 0

OthersIdle ==
  /\ builder = "none" /\ config = <<>> /\ buildError = "none" /\ used = <<>>
  /\ op = "none" /\ arg = <<>> /\ result = <<>> /\ hostCalls = <<>>
  /\ modelsCache = <<>> /\ inflight = <<>>

\* ------------------------------------------------------------ text helpers
NL == "\n"
LeadByte == "C3"
ContByte == "A9"
EAcute == "U+00E9"
Replacement == "U+FFFD"

DataPrefix == <<"d", "a", "t", "a", ":", " ">>
Sentinel == <<"[", "D", "O", "N", "E", "]">>

StartsWith(s, p) == Len(s) >= Len(p) /\ SubSeq(s, 1, Len(p)) = p

Slice(s, n) == SubSeq(s, n + 1, Len(s))

Front(s) == SubSeq(s, 1, Len(s) - 1)

Last(s) == s[Len(s)]

IsPrefix(p, s) == Len(p) <= Len(s) /\ SubSeq(s, 1, Len(p)) = p

\* TextDecoder("utf-8").decode(value, {stream: true}): an incomplete
\* multi-byte sequence at the end of a chunk is held back for the next call.
RECURSIVE DecodeFrom(_, _, _)
DecodeFrom(bytes, pend, out) ==
  IF bytes = <<>> THEN [text |-> out, pending |-> pend]
  ELSE LET b == Head(bytes) IN
    IF pend
    THEN IF b = ContByte
         THEN DecodeFrom(Tail(bytes), FALSE, Append(out, EAcute))
         ELSE DecodeFrom(bytes, FALSE, Append(out, Replacement))
    ELSE IF b = LeadByte THEN DecodeFrom(Tail(bytes), TRUE, out)
    ELSE IF b = ContByte THEN DecodeFrom(Tail(bytes), FALSE, Append(out, Replacement))
    ELSE DecodeFrom(Tail(bytes), FALSE, Append(out, b))

\* decoder.decode(value, { stream: true })
Decode(bytes, pend) == DecodeFrom(bytes, pend, <<>>)

\* text.split("\n"): k newlines give k+1 segments.
RECURSIVE SplitFrom(_, _, _)
SplitFrom(text, cur, acc) ==
  IF text = <<>> THEN Append(acc, cur)
  ELSE IF Head(text) = NL
       THEN SplitFrom(Tail(text), <<>>, Append(acc, cur))
       ELSE SplitFrom(Tail(text), Append(cur, Head(text)), acc)

SplitLines(text) == SplitFrom(text, <<>>, <<>>)

\* the unterminated tail thrown away instead of carried over
PopBufferDropped(segs) == <<>>

\* buffer = lines.pop() || ""
PopBuffer(segs) == Last(segs)

\* JSON.parse on a chunk payload.
JSONParse(data) ==
  IF Len(data) >= 2 /\ Head(data) = "{" /\ Last(data) = "}"
     /\ \A i \in 2..(Len(data) - 1) : data[i] \notin {"{", "}", "[", "]"}
  THEN [kind |-> "object", content |-> SubSeq(data, 2, Len(data) - 1)]
  ELSE IF data = <<"n">> THEN [kind |-> "null", content |-> <<>>]
  ELSE IF data = <<"0">> THEN [kind |-> "number", content |-> <<>>]
  ELSE [kind |-> "SyntaxError", content |-> <<>>]

\* chunk = JSON.parse(data); content = chunk.choices?.[0]?.delta?.content
\* JSON.parse throws on malformed text, and `.choices` throws on null.
ChunkContent(data) ==
  LET j == JSONParse(data) IN
    [threw |-> j.kind \in {"SyntaxError", "null"},
     content |-> IF j.kind = "object" THEN j.content ELSE <<>>]

\* the sentinel compared without its brackets
IsSentinelBare(data) == data = <<"D", "O", "N", "E">>

\* data === "[DONE]"

IsSentinel(data) == data = Sentinel

\* The for-loop over `lines`, run until the generator next suspends:
\* at a yield, at the return on the sentinel, or back at reader.read().
RECURSIVE RunLines(_)

\* a catch block that gives up on the rest of the read
OnChunkErrorBreak(rest) == [kind |-> "read", rest |-> <<>>, frag |-> <<>>]

\* catch {}: the loop goes on with the next line
OnChunkError(rest) == RunLines(rest)

RunLines(ls) ==
  IF ls = <<>> THEN [kind |-> "read", rest |-> <<>>, frag |-> <<>>]
  ELSE LET line == Head(ls) IN
    IF ~StartsWith(line, DataPrefix) THEN RunLines(Tail(ls))
    ELSE LET data == Slice(line, 6) IN
      IF IsSentinel(data)
      THEN [kind |-> "return", rest |-> Tail(ls), frag |-> <<>>]
      ELSE LET c == ChunkContent(data) IN
        IF c.threw THEN OnChunkError(Tail(ls))
        ELSE IF c.content # <<>>
        THEN [kind |-> "yield", rest |-> Tail(ls), frag |-> c.content]
        ELSE RunLines(Tail(ls))

\* Generator that does not stop at the yield but drains the whole read.
RECURSIVE AllFragments(_)
AllFragments(ls) ==
  LET r == RunLines(ls) IN
    IF r.kind = "yield" THEN <<r.frag>> \o AllFragments(r.rest) ELSE <<>>

\* ------------------------------------------------------------------ errors
NoStatus == 0

GatewayError(message, statusCode, detail) ==
  [name |-> "GatewayError", message |-> message, statusCode |-> statusCode,
   detail |-> detail]

NativeError(name, message) ==
  [name |-> name, message |-> message, statusCode |-> NoStatus, detail |-> ""]

NoError == NativeError("none", "")

AbortError == NativeError("AbortError", "This operation was aborted")

FetchFailed == NativeError("TypeError", "fetch failed")

JsonSyntaxError == NativeError("SyntaxError", "Unexpected token")

TimeoutError == GatewayError("Request timeout", NoStatus, "")

HttpError(s, detail) == GatewayError("Gateway API error", s, detail)

NoBodyError == GatewayError("No response body", NoStatus, "")

\* a catch block without the AbortError case
CatchMapNoAbortCase(e) ==
  IF e.name = "GatewayError" THEN e
  ELSE GatewayError("Network error", NoStatus, e.message)

\* catch (error) { ... } of request
CatchMap(e) ==
  IF e.name = "GatewayError" THEN e
  ELSE IF e.name = "AbortError" THEN TimeoutError
  ELSE GatewayError("Network error", NoStatus, e.message)

\* ------------------------------------------------------------ HTTP replies
Statuses == {200, 404, 500}

ResponseOk(s) == s >= 200 /\ s <= 299

StatusText(s) ==
  IF s = 200 THEN "OK" ELSE IF s = 404 THEN "Not Found" ELSE "Internal Server Error"

\* Bodies of non-2xx replies: not JSON, JSON null, JSON without error.message,
\* error given as a bare string, an empty error.message, a real error.message.
ErrBodies == {"notjson", "null", "nofield", "errstring", "emptymsg", "msg"}

ErrBodyIsJson(b) == b # "notjson"

\* errorData?.error?.message ("" stands for undefined or the empty string)
ProviderMessage(b) == IF b = "msg" THEN "quota exceeded" ELSE ""

\* the provider's message never looked at
ErrMessageStatusOnly(b, s) == StatusText(s)

\* message = errorData?.error?.message || response.statusText, or
\* response.statusText when response.json() throws
ErrMessage(b, s) ==
  IF ErrBodyIsJson(b) /\ ProviderMessage(b) # "" THEN ProviderMessage(b)
  ELSE StatusText(s)

\* Bodies of 2xx replies to request: JSON or not.
OkBodies == {"json", "notjson"}

\* --------------------------------------------------------- streamed bodies
LineDone == DataPrefix \o Sentinel
LineA == DataPrefix \o <<"{", "a", "}">>
LineE == DataPrefix \o <<"{", LeadByte, ContByte, "}">>
LineBad == DataPrefix \o <<"{">>
LineNoContent == DataPrefix \o <<"{", "}">>
LineNull == DataPrefix \o <<"n">>
LineComment == <<":">>
LineBlank == <<>>
LineNoSpace == <<"d", "a", "t", "a", ":", "{", "b", "}">>

Templates == {LineDone, LineA, LineE, LineBad, LineNoContent, LineNull,
              LineComment, LineBlank, LineNoSpace}

LineSeqs == UNION {[1..k -> Templates] : k \in 0..MaxLines}

RECURSIVE Join(_)
Join(ls) == IF ls = <<>> THEN <<>> ELSE Head(ls) \o <<NL>> \o Join(Tail(ls))

\* every line terminated, or the last one cut off before its newline
Bodies == {Join(ls) : ls \in LineSeqs}
          \cup {Front(Join(ls)) : ls \in LineSeqs \ {<<>>}}

\* ------------------------------------------------------------ transport FSM
Init ==
  /\ call \in {"request", "stream"}
  /\ body \in (IF call = "stream" THEN Bodies ELSE {<<>>})
  /\ pc = "start"
  /\ exit = "none"
  /\ timer = "unset"
  /\ aborted = FALSE
  /\ conn = "none"
  /\ thrown = NoError
  /\ error = NoError
  /\ status = NoStatus
  /\ reply = "none"
  /\ pos = 0
  /\ pending = FALSE
  /\ buffer = <<>>
  /\ lines = <<>>
  /\ yielded = <<>>
  /\ cut = FALSE
  /\ HostIdle /\ ResolveIdle /\ HandlerIdle /\ OthersIdle

streamState == <<pos, pending, buffer, lines, yielded, cut>>

\* an exit path that leaves the timer as it is
ClearTimeoutSkipped(t) == t

\* finally { clearTimeout(timeoutId) }
ClearTimeout(t) == "cleared"

\* a failed call that goes back to issue its request again
ThrowAndRetry(e, how) ==
  /\ thrown' = e
  /\ error' = NoError
  /\ exit' = "none"
  /\ pc' = "start"
  /\ timer' = ClearTimeout(timer)

\* the call ends by throwing e out of the try block
Throw(e, how) ==
  /\ thrown' = e
  /\ error' = IF call = "request" THEN CatchMap(e) ELSE e
  /\ exit' = how
  /\ pc' = "failed"
  /\ timer' = ClearTimeout(timer)

\* const controller = new AbortController();
\* const timeoutId = setTimeout(() => controller.abort(), timeoutMs);
\* ... await fetch(url, { signal: controller.signal, ... })
Start ==
  /\ pc = "start"
  /\ pc' = "fetch"
  /\ timer' = "armed"
  /\ conn' = "open"
  /\ UNCHANGED offTransport
  /\ UNCHANGED <<call, exit, aborted, thrown, error, status, reply, body,
                 streamState>>

\* the timer callback: controller.abort()
TimerFire ==
  /\ timer = "armed"
  /\ timer' = "fired"
  /\ aborted' = TRUE
  /\ conn' = "closed"
  /\ UNCHANGED offTransport
  /\ UNCHANGED <<call, pc, exit, thrown, error, status, reply, body,
                 streamState>>

\* fetch rejects for a transport-level reason
FetchReject ==
  /\ pc = "fetch" /\ ~aborted
  /\ Throw(FetchFailed, "network")
  /\ conn' = "closed"
  /\ UNCHANGED offTransport
  /\ UNCHANGED <<call, aborted, status, reply, body, streamState>>

\* request: fetch resolves with the response head
RequestFetchResolve(s) ==
  /\ call = "request" /\ pc = "fetch" /\ ~aborted
  /\ status' = s
  /\ pc' = IF ResponseOk(s) THEN "json" ELSE "errjson"
  /\ UNCHANGED offTransport
  /\ UNCHANGED <<call, exit, timer, aborted, conn, thrown, error, reply, body,
                 streamState>>

\* request: return (await response.json()) as T
RequestJson(b) ==
  /\ call = "request" /\ pc = "json" /\ ~aborted
  /\ conn' = "closed"
  /\ reply' = b
  /\ IF b = "json"
     THEN /\ pc' = "done"
          /\ exit' = "ok"
          /\ timer' = ClearTimeout(timer)
          /\ UNCHANGED <<thrown, error>>
     ELSE Throw(JsonSyntaxError, "parse")
  /\ UNCHANGED offTransport
  /\ UNCHANGED <<call, aborted, status, body, streamState>>

\* request: the body of a 2xx reply breaks off while being read
RequestJsonReject ==
  /\ call = "request" /\ pc = "json" /\ ~aborted
  /\ conn' = "closed"
  /\ Throw(FetchFailed, "network")
  /\ UNCHANGED offTransport
  /\ UNCHANGED <<call, aborted, status, reply, body, streamState>>

\* request: if (!response.ok) { ... throw new GatewayError(..., response.status) }
RequestErrorBody(b) ==
  /\ call = "request" /\ pc = "errjson" /\ ~aborted
  /\ conn' = "closed"
  /\ reply' = b
  /\ Throw(HttpError(status, ErrMessage(b, status)), "http")
  /\ UNCHANGED offTransport
  /\ UNCHANGED <<call, aborted, status, body, streamState>>

\* the pending await rejects with AbortError after controller.abort().
\* Inside the !response.ok branch the inner catch turns any failure of
\* response.json() into the status text.
AbortReject ==
  /\ aborted
  /\ pc \in {"fetch", "json", "errjson", "read"}
  /\ IF pc = "errjson"
     THEN Throw(HttpError(status, ErrMessage("notjson", status)), "abort")
     ELSE Throw(AbortError, "abort")
  /\ UNCHANGED offTransport
  /\ UNCHANGED <<call, aborted, conn, status, reply, body, streamState>>

\* a generator that hands a fragment over and goes on to the next read
\* without waiting to be asked
ResumeReadAhead(r) ==
  /\ lines' = r.rest
  /\ IF r.kind = "return"
     THEN /\ pc' = "done"
          /\ exit' = "sentinel"
          /\ timer' = ClearTimeout(timer)
          /\ UNCHANGED yielded
     ELSE /\ pc' = "read"
          /\ yielded' = IF r.kind = "yield" THEN Append(yielded, r.frag)
                        ELSE yielded
          /\ UNCHANGED <<exit, timer>>

\* the generator resumes and runs to its next suspension point
Resume(r) ==
  /\ lines' = r.rest
  /\ IF r.kind = "yield"
     THEN /\ pc' = "yield"
          /\ yielded' = Append(yielded, r.frag)
          /\ UNCHANGED <<exit, timer>>
     ELSE IF r.kind = "return"
     THEN /\ pc' = "done"
          /\ exit' = "sentinel"
          /\ timer' = ClearTimeout(timer)
          /\ UNCHANGED yielded
     ELSE /\ pc' = "read"
          /\ UNCHANGED <<exit, timer, yielded>>

\* streamText: fetch resolves; !response.ok and a missing body throw,
\* otherwise the first reader.read() is issued
StreamFetchResolve(s, hasBody) ==
  /\ call = "stream" /\ pc = "fetch" /\ ~aborted
  /\ status' = s
  /\ IF ~ResponseOk(s)
     THEN Throw(HttpError(s, StatusText(s)), "http")
     ELSE IF ~hasBody
     THEN Throw(NoBodyError, "nobody")
     ELSE /\ pc' = "read"
          /\ UNCHANGED <<exit, timer, thrown, error>>
  /\ UNCHANGED offTransport
  /\ UNCHANGED <<call, aborted, conn, reply, body, pos, pending, buffer, lines,
                 yielded, cut>>

\* streamText: reader.read() resolves with the next n bytes
ReadChunk(n) ==
  /\ call = "stream" /\ pc = "read" /\ ~aborted
  /\ pos + n <= Len(body)
  /\ LET d == Decode(SubSeq(body, pos + 1, pos + n), pending)
         segs == SplitLines(buffer \o d.text)
     IN /\ pending' = d.pending
        /\ buffer' = PopBuffer(segs)
        /\ pos' = pos + n
        /\ cut' = (cut \/ d.pending \/ PopBuffer(segs) # <<>>)
        /\ Resume(RunLines(Front(segs)))
  /\ UNCHANGED offTransport
  /\ UNCHANGED <<call, aborted, conn, thrown, error, status, reply, body>>

\* streamText: reader.read() resolves with done = true
ReadDone ==
  /\ call = "stream" /\ pc = "read" /\ ~aborted
  /\ pos = Len(body)
  /\ pc' = "done"
  /\ exit' = "eof"
  /\ timer' = ClearTimeout(timer)
  /\ conn' = "closed"
  /\ UNCHANGED offTransport
  /\ UNCHANGED <<call, aborted, thrown, error, status, reply, body, streamState>>

\* the consumer asks for the next fragment
Pull ==
  /\ call = "stream" /\ pc = "yield"
  /\ Resume(RunLines(lines))
  /\ UNCHANGED offTransport
  /\ UNCHANGED <<call, aborted, conn, thrown, error, status, reply, body, pos,
                 pending, buffer, cut>>

\* the consumer leaves its for-await loop early (break, or onStreamChunk
\* throws): the generator's return() runs the finally block
ConsumerReturn ==
  /\ call = "stream" /\ pc = "yield"
  /\ pc' = "done"
  /\ exit' = "cancel"
  /\ timer' = ClearTimeout(timer)
  /\ UNCHANGED offTransport
  /\ UNCHANGED <<call, aborted, conn, thrown, error, status, reply, body,
                 streamState>>

Next ==
  \/ Start
  \/ TimerFire
  \/ FetchReject
  \/ \E s \in Statuses : RequestFetchResolve(s)
  \/ \E b \in OkBodies : RequestJson(b)
  \/ RequestJsonReject
  \/ \E b \in ErrBodies : RequestErrorBody(b)
  \/ AbortReject
  \/ \E s \in Statuses, hasBody \in BOOLEAN : StreamFetchResolve(s, hasBody)
  \/ \E n \in 1..(Len(body) - pos) : ReadChunk(n)
  \/ ReadDone
  \/ Pull
  \/ ConsumerReturn

Spec == Init /\ [][Next]_vars

Finished == pc \in {"done", "failed"}

TransportIdle ==
  /\ call = "none" /\ pc = "idle" /\ exit = "none" /\ timer = "unset"
  /\ aborted = FALSE /\ conn = "none" /\ thrown = NoError /\ error = NoError
  /\ status = NoStatus /\ reply = "none" /\ body = <<>> /\ pos = 0
  /\ pending = FALSE /\ buffer = <<>> /\ lines = <<>> /\ yielded = <<>>
  /\ cut = FALSE

\* ------------------------------------------------- settings and environment
\* runtime.getSetting gives null for a missing key and process.env gives
\* undefined; both are written as marked strings here.
Null == "<null>"
Undefined == "<undefined>"
BoolTrue == "<true>"

Truthy(v) == v \notin {Null, Undefined, ""}

\* String(value)
String(v) == IF v = BoolTrue THEN "true" ELSE v

\* --------------------------------------------------------- resolveProvider
Providers == {"vercel-gateway", "openrouter", "openai", "anthropic"}

\* ENV_KEYS[provider]
ENV_KEYS(p) ==
  IF p = "vercel-gateway" THEN "AI_GATEWAY_API_KEY"
  ELSE IF p = "openrouter" THEN "OPENROUTER_API_KEY"
  ELSE IF p = "openai" THEN "OPENAI_API_KEY"
  ELSE "ANTHROPIC_API_KEY"

ProviderKeys == {ENV_KEYS(p) : p \in Providers}

\* the orders in which Object.keys(ENV_KEYS) may list the providers
KeyOrders ==
  {o \in [1..Cardinality(Providers) -> Providers] :
     \A i, j \in DOMAIN o : i # j => o[i] # o[j]}

\* runtime.getSetting(key) || process.env[key]
HasKey(key) == Truthy(settings[key]) \/ Truthy(env[key])

\* for (const provider of Object.keys(ENV_KEYS)) { if (...) return provider }
RECURSIVE ScanFrom(_, _, _)
ScanFrom(order, i, fallback) ==
  IF i > Len(order) THEN fallback
  ELSE IF HasKey(ENV_KEYS(order[i])) THEN order[i]
  ELSE ScanFrom(order, i + 1, fallback)

Scan(order, fallback) == ScanFrom(order, 1, fallback)

\* the two aggregator fallbacks tried in the opposite order
resolveProviderRouterFirst(preferredProvider) ==
  IF HasKey(ENV_KEYS(preferredProvider)) THEN preferredProvider
  ELSE IF HasKey("OPENROUTER_API_KEY") THEN "openrouter"
  ELSE IF HasKey("AI_GATEWAY_API_KEY") THEN "vercel-gateway"
  ELSE Scan(envKeys, preferredProvider)

resolveProvider(preferredProvider) ==
  IF HasKey(ENV_KEYS(preferredProvider)) THEN preferredProvider
  ELSE IF HasKey("AI_GATEWAY_API_KEY") THEN "vercel-gateway"
  ELSE IF HasKey("OPENROUTER_API_KEY") THEN "openrouter"
  ELSE Scan(envKeys, preferredProvider)

InitResolve ==
  /\ TransportIdle /\ HandlerIdle /\ OthersIdle
  /\ settings \in [ProviderKeys -> {Null, "", "sk"}]
  /\ env \in [ProviderKeys -> {Undefined, "ek"}]
  /\ preferred \in Providers
  /\ envKeys \in KeyOrders
  /\ resolved = "none"

\* a handler calls resolveProvider(runtime, config.default...Provider)
ResolveCall ==
  /\ resolved = "none"
  /\ resolved' = resolveProvider(preferred)
  /\ UNCHANGED <<transportVars, hostVars, handlerVars, otherVars, preferred,
                 envKeys>>

NextResolve == ResolveCall

SpecResolve == InitResolve /\ [][NextResolve]_vars

\* ------------------------------------------------- getApiKey / buildConfig
ApiKeyNames == {"AI_GATEWAY_API_KEY", "AIGATEWAY_API_KEY", "VERCEL_OIDC_TOKEN"}

ApiKeyOrder == <<"AI_GATEWAY_API_KEY", "AIGATEWAY_API_KEY", "VERCEL_OIDC_TOKEN">>

\* the value a test runtime or environment holds under a key
SettingValue(k) ==
  IF k = "AI_GATEWAY_API_KEY" THEN "s-gateway"
  ELSE IF k = "AIGATEWAY_API_KEY" THEN "s-alias" ELSE "s-oidc"

EnvValue(k) ==
  IF k = "AI_GATEWAY_API_KEY" THEN "e-gateway"
  ELSE IF k = "AIGATEWAY_API_KEY" THEN "e-alias" ELSE "e-oidc"

\* getEnvValue(key)
getEnvValue(key) == env[key]

\* getSetting(runtime, key)
getSetting(key) ==
  IF Truthy(settings[key]) THEN String(settings[key]) ELSE getEnvValue(key)

\* a || b
JsOr(a, b) == IF Truthy(a) THEN a ELSE b

\* getSetting(AI_GATEWAY_API_KEY) || getSetting(AIGATEWAY_API_KEY)
\*   || getSetting(VERCEL_OIDC_TOKEN)
getApiKeyOptional ==
  JsOr(JsOr(getSetting("AI_GATEWAY_API_KEY"), getSetting("AIGATEWAY_API_KEY")),
       getSetting("VERCEL_OIDC_TOKEN"))

MissingCredential == "AI_GATEWAY_API_KEY, AIGATEWAY_API_KEY, or VERCEL_OIDC_TOKEN is required"

\* the alias key consulted before the gateway key
getApiKeyAliasFirst ==
  LET k == JsOr(JsOr(getSetting("AIGATEWAY_API_KEY"), getSetting("AI_GATEWAY_API_KEY")),
                getSetting("VERCEL_OIDC_TOKEN"))
  IN IF ~Truthy(k)
     THEN [ok |-> FALSE, value |-> MissingCredential]
     ELSE [ok |-> TRUE, value |-> k]

\* getApiKey(runtime): if (!apiKey) throw new Error(...); return apiKey
getApiKey ==
  LET k == JsOr(JsOr(getSetting("AI_GATEWAY_API_KEY"), getSetting("AIGATEWAY_API_KEY")),
                getSetting("VERCEL_OIDC_TOKEN"))
  IN IF ~Truthy(k)
     THEN [ok |-> FALSE, value |-> MissingCredential]
     ELSE [ok |-> TRUE, value |-> k]

\* the handlers of the plugin that start with buildConfig(runtime)
Handlers == {"TEXT_SMALL", "TEXT_LARGE", "TEXT_EMBEDDING", "IMAGE",
             "IMAGE_DESCRIPTION", "OBJECT_SMALL", "OBJECT_LARGE"}

InitConfig ==
  /\ TransportIdle /\ ResolveIdle /\ HandlerIdle /\ OthersIdle
  /\ settings \in {f \in [ApiKeyNames -> {Null, "", BoolTrue} \cup
                                         {SettingValue(k) : k \in ApiKeyNames}] :
                     \A k \in ApiKeyNames : f[k] \in {Null, "", BoolTrue, SettingValue(k)}}
  /\ env \in {f \in [ApiKeyNames -> {Undefined, ""} \cup
                                    {EnvValue(k) : k \in ApiKeyNames}] :
                \A k \in ApiKeyNames : f[k] \in {Undefined, "", EnvValue(k)}}

\* handleXxx(runtime, params): const config = buildConfig(runtime);
\* const client = new GatewayClient(config); return client.xxx(...)
\* buildConfig evaluates getApiKey first; when it throws the handler rejects
\* at once, otherwise the client issues its fetch.
\* The embedding handler reads params.text.length before the client call,
\* which throws when params is an object without a text.
HandlerEnter(h, hasText) ==
  /\ hpc = "idle"
  /\ handler' = h
  /\ IF ~getApiKey.ok
     THEN /\ handlerError' = getApiKey.value
          /\ hpc' = "failed"
          /\ UNCHANGED <<apiKey, httpRequests>>
     ELSE IF h = "TEXT_EMBEDDING" /\ ~hasText
     THEN /\ apiKey' = getApiKey.value
          /\ handlerError' = "TypeError"
          /\ hpc' = "failed"
          /\ UNCHANGED httpRequests
     ELSE /\ apiKey' = getApiKey.value
          /\ httpRequests' = httpRequests + 1
          /\ hpc' = "awaiting"
          /\ UNCHANGED handlerError
  /\ UNCHANGED <<transportVars, hostVars, resolveVars, otherVars>>

\* the client call settles and the handler returns or rejects
HandlerSettle(ok) ==
  /\ hpc = "awaiting"
  /\ hpc' = IF ok THEN "returned" ELSE "failed"
  /\ handlerError' = IF ok THEN handlerError ELSE "GatewayError"
  /\ UNCHANGED <<transportVars, hostVars, resolveVars, otherVars, handler,
                 apiKey, httpRequests>>

NextConfig ==
  \/ \E h \in Handlers, hasText \in BOOLEAN : HandlerEnter(h, hasText)
  \/ \E ok \in BOOLEAN : HandlerSettle(ok)

SpecConfig == InitConfig /\ [][NextConfig]_vars

\* ------------------------------------------------ configuration builders
\* DEFAULT_CONFIG
DEFAULT_CONFIG ==
  [baseUrl |-> "https://ai-gateway.vercel.sh/v1",
   smallModel |-> "gpt-5-mini",
   largeModel |-> "gpt-5",
   embeddingModel |-> "text-embedding-3-small",
   embeddingDimensions |-> 1536,
   imageModel |-> "dall-e-3",
   timeoutMs |-> 60000]

\* the setting keys each field is read from, in the order its getter reads them
FieldKeys ==
  [baseUrl |-> <<"AI_GATEWAY_BASE_URL">>,
   smallModel |-> <<"AI_GATEWAY_SMALL_MODEL", "SMALL_MODEL">>,
   largeModel |-> <<"AI_GATEWAY_LARGE_MODEL", "LARGE_MODEL">>,
   embeddingModel |-> <<"AI_GATEWAY_EMBEDDING_MODEL">>,
   embeddingDimensions |-> <<"AI_GATEWAY_EMBEDDING_DIMENSIONS">>,
   imageModel |-> <<"AI_GATEWAY_IMAGE_MODEL">>,
   timeoutMs |-> <<"AI_GATEWAY_TIMEOUT_MS">>,
   openaiCompatibleUrl |-> <<"AI_GATEWAY_OPENAI_COMPATIBLE_URL">>,
   accountId |-> <<"AI_GATEWAY_ACCOUNT_ID">>,
   workspace |-> <<"AI_GATEWAY_WORKSPACE">>]

KeysOf(f) == {FieldKeys[f][i] : i \in 1..Len(FieldKeys[f])}

\* every key a builder looks up
ConfigKeys == ApiKeyNames \cup UNION {KeysOf(f) : f \in DOMAIN FieldKeys}

\* the characters of a text that reaches parseInt
Chars(t) ==
  CASE t = "512" -> <<"5", "1", "2">>
    [] t = "256" -> <<"2", "5", "6">>
    [] t = "abc" -> <<"a", "b", "c">>
    [] t = "0" -> <<"0">>
    [] t = "-5" -> <<"-", "5">>
    [] t = "12abc" -> <<"1", "2", "a", "b", "c">>
    [] t = "1.5" -> <<"1", ".", "5">>
    [] t = " 42" -> <<" ", "4", "2">>
    [] t = "60s" -> <<"6", "0", "s">>
    [] t = "true" -> <<"t", "r", "u", "e">>

\* the value of a decimal digit, -1 for any other character
DigitValue(c) ==
  CASE c = "0" -> 0 [] c = "1" -> 1 [] c = "2" -> 2 [] c = "3" -> 3
    [] c = "4" -> 4 [] c = "5" -> 5 [] c = "6" -> 6 [] c = "7" -> 7
    [] c = "8" -> 8 [] c = "9" -> 9 [] OTHER -> -1

RECURSIVE SkipWhite(_)
SkipWhite(cs) ==
  IF cs # <<>> /\ Head(cs) \in {" ", NL} THEN SkipWhite(Tail(cs)) ELSE cs

RECURSIVE DigitRun(_, _, _)
DigitRun(cs, n, seen) ==
  IF cs # <<>> /\ DigitValue(Head(cs)) >= 0
  THEN DigitRun(Tail(cs), 10 * n + DigitValue(Head(cs)), TRUE)
  ELSE [isNaN |-> ~seen, value |-> n]

\* parseInt(text, 10): leading white space, an optional sign, then the longest
\* run of decimal digits; NaN when that run is empty
parseInt(t) ==
  LET cs == SkipWhite(Chars(t))
      neg == cs # <<>> /\ Head(cs) = "-"
      rest == IF cs # <<>> /\ Head(cs) \in {"-", "+"} THEN Tail(cs) ELSE cs
      run == DigitRun(rest, 0, FALSE)
  IN [isNaN |-> run.isNaN, value |-> IF neg THEN 0 - run.value ELSE run.value]

\* getBaseUrl(runtime)
getBaseUrl == JsOr(getSetting("AI_GATEWAY_BASE_URL"), DEFAULT_CONFIG.baseUrl)

\* getSmallModel(runtime)
getSmallModel ==
  JsOr(JsOr(getSetting("AI_GATEWAY_SMALL_MODEL"), getSetting("SMALL_MODEL")),
       DEFAULT_CONFIG.smallModel)

\* getLargeModel(runtime)
getLargeModel ==
  JsOr(JsOr(getSetting("AI_GATEWAY_LARGE_MODEL"), getSetting("LARGE_MODEL")),
       DEFAULT_CONFIG.largeModel)

\* getEmbeddingModel(runtime)
getEmbeddingModel ==
  JsOr(getSetting("AI_GATEWAY_EMBEDDING_MODEL"), DEFAULT_CONFIG.embeddingModel)

\* getImageModel(runtime)
getImageModel ==
  JsOr(getSetting("AI_GATEWAY_IMAGE_MODEL"), DEFAULT_CONFIG.imageModel)

\* if (dims) { parsed = parseInt(dims, 10);
\*   if (!Number.isNaN(parsed) && parsed > 0) return parsed; } return fallback
PositiveOr(text, fallback) ==
  IF Truthy(text)
  THEN LET parsed == parseInt(text)
       IN IF ~parsed.isNaN /\ parsed.value > 0 THEN parsed.value ELSE fallback
  ELSE fallback

\* getEmbeddingDimensions(runtime)
getEmbeddingDimensions ==
  PositiveOr(getSetting("AI_GATEWAY_EMBEDDING_DIMENSIONS"),
             DEFAULT_CONFIG.embeddingDimensions)

\* getTimeoutMs(runtime)
getTimeoutMs ==
  PositiveOr(getSetting("AI_GATEWAY_TIMEOUT_MS"), DEFAULT_CONFIG.timeoutMs)

\* buildConfig(runtime); getApiKey throws before any field is read
buildConfig ==
  IF ~getApiKey.ok
  THEN [ok |-> FALSE, error |-> getApiKey.value]
  ELSE [ok |-> TRUE,
        value |-> [apiKey |-> getApiKey.value,
                   baseUrl |-> getBaseUrl,
                   smallModel |-> getSmallModel,
                   largeModel |-> getLargeModel,
                   embeddingModel |-> getEmbeddingModel,
                   embeddingDimensions |-> getEmbeddingDimensions,
                   imageModel |-> getImageModel,
                   timeoutMs |-> getTimeoutMs]]

\* a ?? b
JsNullish(a, b) == IF a \in {Null, Undefined} THEN b ELSE a

\* getSetting(runtime, key, defaultValue) of the gateway-client variant:
\* runtime.getSetting(key) ?? process.env[key] ?? defaultValue
gatewayGetSetting(key, defaultValue) ==
  JsNullish(JsNullish(settings[key], env[key]), defaultValue)

\* getAIGatewayConfig(runtime)
getAIGatewayConfig ==
  LET key == gatewayGetSetting("AI_GATEWAY_API_KEY", Undefined)
  IN IF ~Truthy(key)
     THEN [ok |-> FALSE, error |-> "AI_GATEWAY_API_KEY is required"]
     ELSE [ok |-> TRUE,
           value |->
             [apiKey |-> key,
              baseUrl |-> gatewayGetSetting("AI_GATEWAY_BASE_URL",
                            "https://gateway.ai.cloudflare.com/v1"),
              openaiCompatibleUrl |->
                gatewayGetSetting("AI_GATEWAY_OPENAI_COMPATIBLE_URL", Undefined),
              accountId |-> gatewayGetSetting("AI_GATEWAY_ACCOUNT_ID", Undefined),
              workspace |-> gatewayGetSetting("AI_GATEWAY_WORKSPACE", Undefined),
              smallModel |-> gatewayGetSetting("AI_GATEWAY_SMALL_MODEL",
                               "@cf/meta/llama-3.1-8b-instruct"),
              largeModel |-> gatewayGetSetting("AI_GATEWAY_LARGE_MODEL",
                               "@cf/meta/llama-3.1-70b-instruct"),
              embeddingModel |-> gatewayGetSetting("AI_GATEWAY_EMBEDDING_MODEL",
                                   "@cf/baai/bge-base-en-v1.5"),
              imageModel |-> gatewayGetSetting("AI_GATEWAY_IMAGE_MODEL",
                               "@cf/stabilityai/stable-diffusion-xl-base-1.0")]]

\* the values a host may hold under key k of field f
HostTexts(f, k) ==
  IF f \in {"embeddingDimensions", "timeoutMs"}
  THEN [settings |-> {Null, "", BoolTrue, "512", "abc", "0", "-5", "12abc",
                      "1.5", " 42", "60s"},
        env |-> {Undefined, "", "256", "abc"}]
  ELSE [settings |-> {Null, "", "setting " \o k},
        env |-> {Undefined, "", "env " \o k}]

\* the host holds the gateway key and the keys of one field; every other key
\* is missing from the runtime and from the environment
InitBuild ==
  /\ TransportIdle /\ ResolveIdle /\ HandlerIdle /\ OthersIdle
  /\ \E f \in DOMAIN FieldKeys :
       \E sv \in [KeysOf(f) -> UNION {HostTexts(f, k).settings : k \in KeysOf(f)}],
          ev \in [KeysOf(f) -> UNION {HostTexts(f, k).env : k \in KeysOf(f)}],
          sk \in {Null, "", SettingValue("AI_GATEWAY_API_KEY")},
          ek \in {Undefined, EnvValue("AI_GATEWAY_API_KEY")} :
         LET keys == ConfigKeys
         IN /\ \A k \in KeysOf(f) : /\ sv[k] \in HostTexts(f, k).settings
                                    /\ ev[k] \in HostTexts(f, k).env
            /\ settings = [k \in keys |->
                             IF k = "AI_GATEWAY_API_KEY" THEN sk
                             ELSE IF k \in KeysOf(f) THEN sv[k] ELSE Null]
            /\ env = [k \in keys |->
                        IF k = "AI_GATEWAY_API_KEY" THEN ek
                        ELSE IF k \in KeysOf(f) THEN ev[k] ELSE Undefined]

\* const config = buildConfig(runtime)
BuildConfig ==
  /\ builder = "none"
  /\ builder' = "buildConfig"
  /\ IF buildConfig.ok
     THEN config' = buildConfig.value /\ buildError' = "none"
     ELSE config' = <<>> /\ buildError' = buildConfig.error
  /\ UNCHANGED <<transportVars, hostVars, resolveVars, handlerVars, callVars,
                 hostCalls, modelsCache, inflight, used>>

\* const config = getAIGatewayConfig(runtime)
GetAIGatewayConfig ==
  /\ builder = "none"
  /\ builder' = "getAIGatewayConfig"
  /\ IF getAIGatewayConfig.ok
     THEN config' = getAIGatewayConfig.value /\ buildError' = "none"
     ELSE config' = <<>> /\ buildError' = getAIGatewayConfig.error
  /\ UNCHANGED <<transportVars, hostVars, resolveVars, handlerVars, callVars,
                 hostCalls, modelsCache, inflight, used>>

\* client.generateText(params) of a GatewayClient holding the built config:
\* params.model || config.largeModel; request() reads config.baseUrl and
\* config.timeoutMs
GenerateText(model) ==
  /\ builder = "buildConfig" /\ buildError = "none" /\ used = <<>>
  /\ used' = [method |-> "generateText", field |-> "largeModel",
              params |-> [model |-> model],
              model |-> JsOr(model, config.largeModel),
              baseUrl |-> config.baseUrl, timeoutMs |-> config.timeoutMs]
  /\ UNCHANGED <<transportVars, hostVars, resolveVars, handlerVars, callVars,
                 hostCalls, modelsCache, inflight, builder, config, buildError>>

\* client.createEmbedding(params)
CreateEmbedding(model, dimensions) ==
  /\ builder = "buildConfig" /\ buildError = "none" /\ used = <<>>
  /\ used' = [method |-> "createEmbedding", field |-> "embeddingModel",
              params |-> [model |-> model, dimensions |-> dimensions],
              model |-> JsOr(model, config.embeddingModel),
              dimensions |-> IF dimensions # 0 THEN dimensions
                             ELSE config.embeddingDimensions,
              baseUrl |-> config.baseUrl, timeoutMs |-> config.timeoutMs]
  /\ UNCHANGED <<transportVars, hostVars, resolveVars, handlerVars, callVars,
                 hostCalls, modelsCache, inflight, builder, config, buildError>>

\* client.generateImage(params)
GenerateImage(model) ==
  /\ builder = "buildConfig" /\ buildError = "none" /\ used = <<>>
  /\ used' = [method |-> "generateImage", field |-> "imageModel",
              params |-> [model |-> model],
              model |-> JsOr(model, config.imageModel),
              baseUrl |-> config.baseUrl, timeoutMs |-> config.timeoutMs]
  /\ UNCHANGED <<transportVars, hostVars, resolveVars, handlerVars, callVars,
                 hostCalls, modelsCache, inflight, builder, config, buildError>>

\* a handler of the gateway-client variant puts config.<field> in the body
GatewayHandle(h, field) ==
  /\ builder = "getAIGatewayConfig" /\ buildError = "none" /\ used = <<>>
  /\ used' = [method |-> h, field |-> field,
              params |-> [model |-> Undefined],
              model |-> config[field],
              baseUrl |-> config.baseUrl]
  /\ UNCHANGED <<transportVars, hostVars, resolveVars, handlerVars, callVars,
                 hostCalls, modelsCache, inflight, builder, config, buildError>>

NextBuild ==
  \/ BuildConfig
  \/ GetAIGatewayConfig
  \/ \E model \in {Undefined, "", "call-model", getSmallModel, getLargeModel} :
       GenerateText(model)
  \/ \E model \in {Undefined, "", "call-model", getEmbeddingModel},
        dimensions \in {0, 64, getEmbeddingDimensions} :
       CreateEmbedding(model, dimensions)
  \/ \E model \in {Undefined, "", "call-model", getImageModel} :
       GenerateImage(model)
  \/ \E hf \in {<<"handleTextSmall", "smallModel">>,
                <<"handleTextLarge", "largeModel">>,
                <<"handleTextEmbedding", "embeddingModel">>,
                <<"handleImageGeneration", "imageModel">>} :
       GatewayHandle(hf[1], hf[2])

SpecBuild == InitBuild /\ [][NextBuild]_vars

\* -------------------------------------------------- pure helpers and calls
\* text.toLowerCase()
toLowerCase(text) ==
  LET upper == <<"A", "B", "C", "D", "E", "F", "G", "H", "I", "J", "K", "L", "M",
                 "N", "O", "P", "Q", "R", "S", "T", "U", "V", "W", "X", "Y", "Z">>
      lower == <<"a", "b", "c", "d", "e", "f", "g", "h", "i", "j", "k", "l", "m",
                 "n", "o", "p", "q", "r", "s", "t", "u", "v", "w", "x", "y", "z">>
  IN [i \in 1..Len(text) |->
        IF \E j \in 1..26 : upper[j] = text[i]
        THEN lower[CHOOSE j \in 1..26 : upper[j] = text[i]]
        ELSE text[i]]

\* text.includes(part)
includes(text, part) ==
  \E i \in 0..(Len(text) - Len(part)) : SubSeq(text, i + 1, i + Len(part)) = part

\* NO_TEMPERATURE_MODELS
NO_TEMPERATURE_MODELS ==
  {<<"o", "1">>,
   <<"o", "1", "-", "p", "r", "e", "v", "i", "e", "w">>,
   <<"o", "1", "-", "m", "i", "n", "i">>,
   <<"o", "3">>,
   <<"o", "3", "-", "m", "i", "n", "i">>,
   <<"g", "p", "t", "-", "5">>,
   <<"g", "p", "t", "-", "5", "-", "m", "i", "n", "i">>}

\* the predicate without the lower-casing of the model id
modelSupportsTemperatureCaseSensitive(model) ==
  ~\E noTempModel \in NO_TEMPERATURE_MODELS : includes(model, noTempModel)

\* modelSupportsTemperature(model)
modelSupportsTemperature(model) ==
  LET modelLower == toLowerCase(model)
  IN ~\E noTempModel \in NO_TEMPERATURE_MODELS : includes(modelLower, noTempModel)

\* a JavaScript value: kind is "null", "undefined", "true", "false" or
\* "string", and text holds the characters of a string
Js(kind, text) == [kind |-> kind, text |-> text]

\* !value
Falsy(value) ==
  \/ value.kind \in {"null", "undefined", "false"}
  \/ value.kind = "string" /\ value.text = <<>>

\* what a call gives back: a returned value or a thrown error
Returned(value) == [threw |-> FALSE, value |-> value]

\* message is the error text as the parts of its template: a constant text,
\* then the characters interpolated after it
Threw(name, message) ==
  [threw |-> TRUE, error |-> name, message |-> message]

InitCalls ==
  /\ TransportIdle /\ ResolveIdle /\ HandlerIdle /\ OthersIdle
  /\ \E sk \in {Null, "", SettingValue("AI_GATEWAY_API_KEY")},
        ek \in {Undefined, EnvValue("AI_GATEWAY_API_KEY")} :
       /\ settings = [k \in ConfigKeys |->
                        IF k = "AI_GATEWAY_API_KEY" THEN sk ELSE Null]
       /\ env = [k \in ConfigKeys |->
                   IF k = "AI_GATEWAY_API_KEY" THEN ek ELSE Undefined]

\* a caller evaluates modelSupportsTemperature(model)
ModelSupportsTemperature(model) ==
  /\ op = "none"
  /\ op' = "modelSupportsTemperature"
  /\ arg' = [model |-> model]
  /\ result' = Returned(Js(IF modelSupportsTemperature(model)
                            THEN "true" ELSE "false", <<>>))
  /\ UNCHANGED <<transportVars, hostVars, resolveVars, handlerVars, builder,
                 config, buildError, used, hostCalls, modelsCache, inflight>>

\* the tail of GatewayClient.generateText after request() resolved with the
\* parsed body `response`; choices holds each choice's message.content
generateText(response) ==
  IF ~response.hasChoices \/ response.choices = <<>>
  THEN Threw("GatewayError", <<"API returned no choices">>)
  ELSE LET content == response.choices[1]
       IN IF content = Js("null", <<>>)
          THEN Threw("GatewayError", <<"API returned empty content">>)
          ELSE Returned(content)

\* the event emitted without looking at response.data.usage
EmitAlways(usage, emit, value) ==
  IF emit = "throws" THEN Threw("Error", <<"emitEvent failed">>)
  ELSE Returned(value)

\* if (response.data.usage) runtime.emitEvent(MODEL_USED, ...); return value
\* emitEvent is called without await and outside any try block: what it throws
\* leaves the handler, a promise it returns is dropped
EmitThenReturn(usage, emit, value) ==
  IF usage /\ emit = "throws" THEN Threw("Error", <<"emitEvent failed">>)
  ELSE Returned(value)

\* handleTextSmall / handleTextLarge of the gateway-client variant, given what
\* makeOpenAIRequest resolved with
handleTextSmall(response, emit) ==
  IF ~getAIGatewayConfig.ok
  THEN Threw("Error", <<getAIGatewayConfig.error>>)
  ELSE IF ~response.success \/ ~response.hasData
  THEN Threw("Error", <<"AI Gateway text generation failed: ">>)
  ELSE LET content == IF response.hasChoices /\ response.choices # <<>>
                      THEN response.choices[1] ELSE Js("undefined", <<>>)
       IN IF Falsy(content)
          THEN Threw("Error", <<"No content in AI Gateway response">>)
          ELSE EmitThenReturn(response.usage, emit, content)

\* the code-fence marker: three backquote characters (U+0060)
Fence == <<"U+0060", "U+0060", "U+0060">>

\* text.trim(): the text without its leading and trailing white space
trim(text) ==
  LET inked == {i \in 1..Len(text) : text[i] \notin {" ", NL}}
  IN IF inked = {} THEN <<>>
     ELSE SubSeq(text, CHOOSE i \in inked : \A j \in inked : i <= j,
                 CHOOSE i \in inked : \A j \in inked : i >= j)

\* GatewayClient.generateObject after request() resolved with the parsed body
\* `response`: generateText, strip the code fence, JSON.parse
generateObject(response) ==
  LET answer == generateText(response)
      trimmed == trim(answer.value.text)
      untagged == IF StartsWith(trimmed, Fence \o <<"j", "s", "o", "n">>)
                  THEN Slice(trimmed, 7) ELSE trimmed
      opened == IF StartsWith(untagged, Fence) THEN Slice(untagged, 3)
                ELSE untagged
      cleaned == IF Len(opened) >= 3
                    /\ SubSeq(opened, Len(opened) - 2, Len(opened)) = Fence
                 THEN SubSeq(opened, 1, Len(opened) - 3) ELSE opened
      parsed == JSONParse(trim(cleaned))
  IN IF answer.threw THEN answer
     ELSE IF answer.value.kind # "string"
     THEN Threw("TypeError", <<"response.trim is not a function">>)
     ELSE IF parsed.kind = "SyntaxError"
     THEN Threw("GatewayError", <<"Failed to parse JSON response: ">> \o cleaned)
     ELSE Returned(Js(parsed.kind, parsed.content))

\* handleObjectSmall / handleObjectLarge of the gateway-client variant, given
\* what makeOpenAIRequest resolved with; JSON.parse ignores white space around
\* the value
handleObjectSmall(response, emit) ==
  IF ~getAIGatewayConfig.ok
  THEN Threw("Error", <<getAIGatewayConfig.error>>)
  ELSE IF ~response.success \/ ~response.hasData
  THEN Threw("Error", <<"AI Gateway object generation failed: ">>)
  ELSE LET content == IF response.hasChoices /\ response.choices # <<>>
                      THEN response.choices[1] ELSE Js("undefined", <<>>)
           parsedObject == JSONParse(trim(content.text))
       IN IF Falsy(content)
          THEN Threw("Error", <<"No content in AI Gateway response">>)
          ELSE IF parsedObject.kind = "SyntaxError"
          THEN Threw("Error", <<"Failed to parse JSON from AI Gateway response">>)
          ELSE EmitThenReturn(response.usage, emit,
                              Js(parsedObject.kind, parsedObject.content))

\* /title[:\s]+(.+?)(?:\n|$)/i.exec(content): the leftmost "title" in any
\* letter case that is followed by one or more colons or white-space
\* characters (as many as still leave a character other than a newline to
\* capture), the captured text running to the next newline or to the end of
\* the text; the match consumes that newline
titleMatch(content) ==
  LET low == toLowerCase(content)
      n == Len(content)
      Captures(i) ==
        {c \in (i + 6)..n :
           /\ SubSeq(low, i, i + 4) = <<"t", "i", "t", "l", "e">>
           /\ \A j \in (i + 5)..(c - 1) : content[j] \in {":", " ", NL}
           /\ content[c] # NL}
      starts == {i \in 1..n : Captures(i) # {}}
      index == CHOOSE i \in starts : \A j \in starts : i <= j
      from == CHOOSE c \in Captures(index) : \A d \in Captures(index) : c >= d
      to == CHOOSE e \in from..n :
              /\ e = n \/ content[e + 1] = NL
              /\ \A j \in from..e : content[j] # NL
  IN IF starts = {} THEN [found |-> FALSE, capture |-> <<>>, replaced |-> content]
     ELSE [found |-> TRUE,
           capture |-> SubSeq(content, from, to),
           replaced |-> SubSeq(content, 1, index - 1)
                        \o SubSeq(content, to + 2, n)]

\* GatewayClient.describeImage after request() resolved with the parsed body
\* `response`; params.prompt only goes into the request body
describeImage(params, response) ==
  IF ~response.hasChoices \/ response.choices = <<>>
  THEN Threw("GatewayError", <<"API returned no choices for image description">>)
  ELSE LET content == response.choices[1]
           match == titleMatch(content.text)
       IN IF content.kind = "null"
          THEN Threw("GatewayError", <<"API returned empty image description">>)
          ELSE IF content.kind # "string"
          THEN Threw("TypeError", <<"content is undefined">>)
          ELSE IF match.found
          THEN Returned([kind |-> "object", title |-> trim(match.capture),
                         description |-> trim(match.replaced)])
          ELSE Returned([kind |-> "object", title |-> <<"Image Analysis">>,
                         description |-> content.text])

\* handleImageDescription of the gateway-client variant, given what
\* makeOpenAIRequest resolved with
gatewayHandleImageDescription(params, response, emit) ==
  LET content == IF response.hasChoices /\ response.choices # <<>>
                 THEN response.choices[1] ELSE Js("undefined", <<>>)
      isCustomPrompt ==
        /\ ~params.isString
        /\ ~Falsy(params.prompt)
        /\ params.prompt # Js("string", <<"Please analyze this image and provide a title and detailed description.">>)
      match == titleMatch(content.text)
      title == IF match.found /\ trim(match.capture) # <<>>
               THEN trim(match.capture) ELSE <<"Image Analysis">>
  IN IF ~getAIGatewayConfig.ok
     THEN Threw("Error", <<getAIGatewayConfig.error>>)
     ELSE IF ~response.success \/ ~response.hasData
     THEN Returned([kind |-> "object", title |-> <<"Failed to analyze image">>,
                    description |-> <<"Unknown error">>])
     ELSE IF Falsy(content)
     THEN Returned([kind |-> "object", title |-> <<"Failed to analyze image">>,
                    description |-> <<"No response from API">>])
     ELSE EmitThenReturn(response.usage, emit,
            IF isCustomPrompt THEN content
            ELSE [kind |-> "object", title |-> title,
                  description |-> trim(match.replaced)])

\* Array(embeddingDimension).fill(0) with vector[0] set to a sentinel; the
\* items are in tenths, so 1 stands for 0.1
fallbackVector(sentinel) ==
  [kind |-> "array", items |-> [i \in 1..768 |-> IF i = 1 THEN sentinel ELSE 0]]

\* handleTextEmbedding of the gateway-client variant, given what
\* makeOpenAIRequest resolved with; params.text is the text property of an
\* object parameter, or the parameter itself when it is a string
handleTextEmbedding(params, response, emit) ==
  IF ~getAIGatewayConfig.ok
  THEN Threw("Error", <<getAIGatewayConfig.error>>)
  ELSE IF params.kind = "null" THEN Returned(fallbackVector(1))
  ELSE IF ~(\/ params.kind = "string"
            \/ params.kind = "object" /\ ~Falsy(params.text))
  THEN Returned(fallbackVector(2))
  ELSE IF params.text.kind # "string"
  THEN Threw("TypeError", <<"text.trim is not a function">>)
  ELSE IF trim(params.text.text) = <<>> THEN Returned(fallbackVector(3))
  ELSE IF ~response.success \/ ~response.hasData
  THEN Returned(fallbackVector(4))
  ELSE IF response.embedding.kind # "array" THEN Returned(fallbackVector(5))
  ELSE EmitThenReturn(response.usage, emit, response.embedding)

\* the body of the chat-completions request a method builds from the
\* caller's parameters (an absent parameter or body field is Undefined);
\* configured is the model of the configuration the method falls back on
chatBody(method, params, configured) ==
  LET model == IF method = "handleTextSmall" THEN configured
               ELSE IF params.model # <<>> THEN params.model
               ELSE IF method = "describeImage"
               THEN <<"g", "p", "t", "-", "5", "-", "m", "i", "n", "i">>
               ELSE configured
      tunable == modelSupportsTemperature(model)
      Given(v) == IF tunable THEN v ELSE Undefined
      bare == [kind |-> "object", model |-> model, stream |-> Undefined,
               temperature |-> Undefined, frequency_penalty |-> Undefined,
               presence_penalty |-> Undefined, stop |-> Undefined,
               max_tokens |-> Undefined, max_completion_tokens |-> Undefined]
  IN CASE method = "generateText" ->
            [bare EXCEPT !.temperature = Given(params.temperature),
                         !.frequency_penalty = Given(params.frequencyPenalty),
                         !.presence_penalty = Given(params.presencePenalty),
                         !.stop = Given(params.stopSequences),
                         !.max_tokens = Given(params.maxTokens),
                         !.max_completion_tokens =
                            IF tunable THEN Undefined ELSE params.maxTokens]
       [] method = "streamText" ->
            [bare EXCEPT !.stream = BoolTrue,
                         !.temperature = Given(params.temperature),
                         !.max_tokens = Given(params.maxTokens),
                         !.max_completion_tokens =
                            IF tunable THEN Undefined ELSE params.maxTokens]
       [] method = "describeImage" ->
            [bare EXCEPT !.max_tokens =
                            IF params.maxTokens \in {Undefined, "0"} THEN "8192"
                            ELSE params.maxTokens]
       [] method = "handleTextSmall" ->
            [bare EXCEPT !.temperature = JsNullish(params.temperature, "0.7"),
                         !.max_tokens = JsNullish(params.max_tokens, "8192"),
                         !.frequency_penalty =
                            JsNullish(params.frequencyPenalty, "0.7"),
                         !.presence_penalty =
                            JsNullish(params.presencePenalty, "0.7"),
                         !.stop = IF params.stopSequences \in {Undefined, "[]"}
                                  THEN Undefined ELSE params.stopSequences]

\* AIGatewayClient.makeRequest, given what the network did: `settled.step` tells
\* whether fetch rejected, response.text() rejected or both resolved
makeRequest(settled) ==
  LET GatewayResponse(success, value, failure) ==
        [kind |-> "GatewayResponse", success |-> success, data |-> value,
         error |-> failure]
      absent == Js("undefined", <<>>)
      parsed == JSONParse(trim(settled.text))
  IN IF settled.step # "resolved"
     THEN Returned(GatewayResponse(FALSE, absent, Js("string", settled.message)))
     ELSE IF ~ResponseOk(settled.status)
     THEN Returned(GatewayResponse(FALSE, absent,
            Js("string", <<"Request failed: ", ToString(settled.status), " ",
                           StatusText(settled.status)>>)))
     ELSE IF parsed.kind = "SyntaxError"
     THEN Returned(GatewayResponse(FALSE, absent,
                                   Js("string", <<"Failed to parse response">>)))
     ELSE Returned(GatewayResponse(TRUE, Js(parsed.kind, parsed.content), absent))

\* client.generateText settles
GenerateTextSettles(response) ==
  /\ op = "none"
  /\ op' = "generateText"
  /\ arg' = [response |-> response]
  /\ result' = generateText(response)
  /\ UNCHANGED <<transportVars, hostVars, resolveVars, handlerVars, builder,
                 config, buildError, used, hostCalls, modelsCache, inflight>>

\* the runtime calls the gateway-client TEXT_SMALL handler; hostCalls gets the
\* emitEvent call when the handler reaches it, which are the inputs on which
\* an emitEvent that throws is what the handler throws
HandleTextSmall(response, emit) ==
  /\ op = "none"
  /\ op' = "handleTextSmall"
  /\ arg' = [response |-> response, emit |-> emit]
  /\ result' = handleTextSmall(response, emit)
  /\ hostCalls' = IF handleTextSmall(response, "throws") = Threw("Error", <<"emitEvent failed">>)
                  THEN <<[fn |-> "emitEvent", given |-> <<"ai-gateway">>,
                          outcome |-> emit]>>
                  ELSE <<>>
  /\ UNCHANGED <<transportVars, hostVars, resolveVars, handlerVars, builder,
                 config, buildError, used, modelsCache, inflight>>

\* client.generateObject settles
GenerateObjectSettles(response) ==
  /\ op = "none"
  /\ op' = "generateObject"
  /\ arg' = [response |-> response]
  /\ result' = generateObject(response)
  /\ UNCHANGED <<transportVars, hostVars, resolveVars, handlerVars, builder,
                 config, buildError, used, hostCalls, modelsCache, inflight>>

\* the runtime calls the gateway-client OBJECT_SMALL handler
HandleObjectSmall(response, emit) ==
  /\ op = "none"
  /\ op' = "handleObjectSmall"
  /\ arg' = [response |-> response, emit |-> emit]
  /\ result' = handleObjectSmall(response, emit)
  /\ hostCalls' = IF handleObjectSmall(response, "throws") = Threw("Error", <<"emitEvent failed">>)
                  THEN <<[fn |-> "emitEvent", given |-> <<"ai-gateway">>,
                          outcome |-> emit]>>
                  ELSE <<>>
  /\ UNCHANGED <<transportVars, hostVars, resolveVars, handlerVars, builder,
                 config, buildError, used, modelsCache, inflight>>

\* the runtime calls the IMAGE_DESCRIPTION handler of a variant: the
\* TypeScript one builds the configuration and returns client.describeImage
HandleImageDescription(variant, params, response, emit) ==
  /\ op = "none"
  /\ op' = variant
  /\ arg' = [params |-> params, response |-> response, emit |-> emit]
  /\ result' = IF variant = "gatewayHandleImageDescription"
               THEN gatewayHandleImageDescription(params, response, emit)
               ELSE IF ~buildConfig.ok THEN Threw("Error", <<buildConfig.error>>)
               ELSE describeImage(params, response)
  /\ hostCalls' = IF (IF variant = "gatewayHandleImageDescription"
                      THEN gatewayHandleImageDescription(params, response, "throws")
                      ELSE Returned(<<>>)) = Threw("Error", <<"emitEvent failed">>)
                  THEN <<[fn |-> "emitEvent", given |-> <<"ai-gateway">>,
                          outcome |-> emit]>>
                  ELSE <<>>
  /\ UNCHANGED <<transportVars, hostVars, resolveVars, handlerVars, builder,
                 config, buildError, used, modelsCache, inflight>>

\* the runtime calls the gateway-client TEXT_EMBEDDING handler
HandleTextEmbedding(params, response, emit) ==
  /\ op = "none"
  /\ op' = "handleTextEmbedding"
  /\ arg' = [params |-> params, response |-> response, emit |-> emit]
  /\ result' = handleTextEmbedding(params, response, emit)
  /\ hostCalls' = IF handleTextEmbedding(params, response, "throws") = Threw("Error", <<"emitEvent failed">>)
                  THEN <<[fn |-> "emitEvent", given |-> <<"ai-gateway">>,
                          outcome |-> emit]>>
                  ELSE <<>>
  /\ UNCHANGED <<transportVars, hostVars, resolveVars, handlerVars, builder,
                 config, buildError, used, modelsCache, inflight>>

\* a method builds the body of its chat-completions request
ChatBody(method, params, configured) ==
  /\ op = "none"
  /\ op' = "chatBody"
  /\ arg' = [method |-> method, params |-> params, configured |-> configured]
  /\ result' = Returned(chatBody(method, params, configured))
  /\ UNCHANGED <<transportVars, hostVars, resolveVars, handlerVars, builder,
                 config, buildError, used, hostCalls, modelsCache, inflight>>

\* a handler awaits client.makeRequest
MakeRequest(settled) ==
  /\ op = "none"
  /\ op' = "makeRequest"
  /\ arg' = [reply |-> settled]
  /\ result' = makeRequest(settled)
  /\ UNCHANGED <<transportVars, hostVars, resolveVars, handlerVars, builder,
                 config, buildError, used, hostCalls, modelsCache, inflight>>

\* a handler that hands onStreamChunk the text received so far instead of the
\* new fragment
HandleTextAccumulated(params, fragments, ending, response) ==
  LET RECURSIVE join(_)
      \* chunks.join("")
      join(chunks) == IF chunks = <<>> THEN <<>>
                      ELSE Head(chunks) \o join(Tail(chunks))
      onStreamChunk(i) ==
        [fn |-> "onStreamChunk", given |-> join(SubSeq(fragments, 1, i)),
         outcome |-> params.onStreamChunk]
  IN /\ op = "none"
     /\ op' = "handleText"
     /\ arg' = [params |-> params, fragments |-> fragments, ending |-> ending,
                response |-> response]
     /\ IF params.stream /\ params.onStreamChunk # "absent"
        THEN IF fragments # <<>> /\ params.onStreamChunk = "throws"
             THEN /\ hostCalls' = <<onStreamChunk(1)>>
                  /\ result' = Threw("Error", <<"onStreamChunk failed">>)
             ELSE /\ hostCalls' = [i \in 1..Len(fragments) |-> onStreamChunk(i)]
                  /\ result' = IF ending = "throw"
                               THEN Threw("GatewayError", <<"Network error">>)
                               ELSE Returned(Js("string", join(fragments)))
        ELSE /\ hostCalls' = <<>>
             /\ result' = generateText(response)
     /\ UNCHANGED <<transportVars, hostVars, resolveVars, handlerVars, builder,
                    config, buildError, used, modelsCache, inflight>>

\* the runtime calls handleTextSmall or handleTextLarge of models/text.ts:
\* `fragments` is what client.streamText yields before it ends as `ending`
\* says, `response` is the body client.generateText gets; a throwing
\* onStreamChunk ends the for-await loop at its first call
HandleText(params, fragments, ending, response) ==
  LET RECURSIVE join(_)
      \* chunks.join("")
      join(chunks) == IF chunks = <<>> THEN <<>>
                      ELSE Head(chunks) \o join(Tail(chunks))
      onStreamChunk(i) ==
        [fn |-> "onStreamChunk", given |-> fragments[i],
         outcome |-> params.onStreamChunk]
  IN /\ op = "none"
     /\ op' = "handleText"
     /\ arg' = [params |-> params, fragments |-> fragments, ending |-> ending,
                response |-> response]
     /\ IF params.stream /\ params.onStreamChunk # "absent"
        THEN IF fragments # <<>> /\ params.onStreamChunk = "throws"
             THEN /\ hostCalls' = <<onStreamChunk(1)>>
                  /\ result' = Threw("Error", <<"onStreamChunk failed">>)
             ELSE /\ hostCalls' = [i \in 1..Len(fragments) |-> onStreamChunk(i)]
                  /\ result' = IF ending = "throw"
                               THEN Threw("GatewayError", <<"Network error">>)
                               ELSE Returned(Js("string", join(fragments)))
        ELSE /\ hostCalls' = <<>>
             /\ result' = generateText(response)
     /\ UNCHANGED <<transportVars, hostVars, resolveVars, handlerVars, builder,
                    config, buildError, used, modelsCache, inflight>>

\* the runtime calls a handler of the ai-sdk plugin (aiGatewayPlugin.models):
\* gatewayKey and openaiKey are what `getSetting(k) || process.env[k]` gave,
\* configured is the model id cut into pieces ('azure-openai/gpt-4o' is
\* "azure-", "openai/", "gpt-4o"), settled is what
\* the provider call does. hostCalls lists the provider call (backend first,
\* then the model id handed to it) and the emitEvent call, if made.
AiGatewayPlugin(modelType, gatewayKey, openaiKey, configured, params, settled, emit) ==
  LET text == modelType \in {"TEXT_SMALL", "TEXT_LARGE"}
      hits == {i \in 1..Len(configured) : configured[i] = "openai/"}
      first == CHOOSE i \in hits : \A j \in hits : i <= j
      \* configured.replace('openai/', '')
      replaced == IF hits = {} THEN configured
                  ELSE SubSeq(configured, 1, first - 1)
                       \o SubSeq(configured, first + 1, Len(configured))
      backend == IF Truthy(gatewayKey) THEN <<"gateway">> \o configured
                 ELSE <<"openai">> \o replaced
      sizeStr == IF params.size = <<Undefined>> THEN <<"1024", "x", "1024">>
                 ELSE params.size
      sizeMatch == /\ Len(sizeStr) = 3 /\ sizeStr[2] = "x"
                   /\ sizeStr[1] \in {"512", "1024"}
                   /\ sizeStr[3] \in {"512", "1024"}
      provider == [fn |-> IF text THEN "generateText"
                          ELSE IF modelType = "TEXT_EMBEDDING" THEN "embed"
                          ELSE "generateImage",
                   given |-> backend,
                   outcome |-> IF settled.ok THEN "ok" ELSE "throws"]
      event == [fn |-> "emitEvent",
                given |-> <<IF Truthy(gatewayKey) THEN "ai-gateway" ELSE "openai">>,
                outcome |-> emit]
      emits == text /\ settled.ok /\ settled.usage
  IN /\ op = "none"
     /\ op' = "aiGatewayPlugin"
     /\ arg' = [modelType |-> modelType, gatewayKey |-> gatewayKey,
                openaiKey |-> openaiKey, model |-> configured,
                params |-> params, settled |-> settled, emit |-> emit]
     /\ IF modelType = "TEXT_EMBEDDING" /\ params.text = <<>>
        THEN /\ result' = Threw("Error", <<"Text is required for embeddings">>)
             /\ hostCalls' = <<>>
        ELSE IF ~Truthy(gatewayKey) /\ ~Truthy(openaiKey)
        THEN /\ result' = Threw("Error",
                             <<"AI_GATEWAY_API_KEY or OPENAI_API_KEY is required">>)
             /\ hostCalls' = <<>>
        ELSE IF modelType = "IMAGE" /\ ~sizeMatch
        THEN /\ result' = Threw("Error", <<"Invalid size format: ">> \o sizeStr
                                  \o <<". Expected format: WIDTHxHEIGHT">>)
             /\ hostCalls' = <<>>
        ELSE IF ~settled.ok
        THEN /\ result' = Threw("Error", <<"provider call failed">>)
             /\ hostCalls' = <<provider>>
        ELSE /\ result' = IF emits /\ emit = "throws"
                          THEN Threw("Error", <<"emitEvent failed">>)
                          ELSE Returned(Js(IF text THEN "string" ELSE "array",
                                           <<"reply">>))
             /\ hostCalls' = IF emits THEN <<provider, event>> ELSE <<provider>>
     /\ UNCHANGED <<transportVars, hostVars, resolveVars, handlerVars, builder,
                    config, buildError, used, modelsCache, inflight>>

\* the calls a caller can make, over model ids (a provider prefix, a model
\* name, a version suffix), parsed chat-completion bodies and what
\* makeOpenAIRequest resolves with
NextCalls ==
  LET ModelIds ==
        {pre \o core \o suf :
           pre \in {<<>>, <<"x", "/">>, <<"o">>, <<"g", "p", "t", "-">>},
           core \in {<<"o", "1">>,
                     <<"O", "1">>,
                     <<"o", "3">>,
                     <<"o", "3", "-", "m", "i", "n", "i">>,
                     <<"O", "3", "-", "M", "i", "n", "i">>,
                     <<"g", "p", "t", "-", "5">>,
                     <<"g", "P", "t", "-", "5">>,
                     <<"G", "P", "T", "-", "5", "-", "M", "I", "N", "I">>,
                     <<"g", "p", "t", "-", "5", "-", "m", "i", "n", "i">>,
                     <<"g", "p", "t", "-", "4", "o">>,
                     <<"g", "p", "t", "-", "4">>,
                     <<"g", "p", "t", "-">>,
                     <<"o">>,
                     <<"o", "2">>,
                     <<"5">>,
                     <<"c", "l", "a", "u", "d", "e">>},
           suf \in {<<>>, <<"1">>, <<"-", "5">>, <<"-", "m", "i", "n", "i">>}}
      Contents ==
        {Js("null", <<>>), Js("undefined", <<>>), Js("string", <<>>),
         Js("string", <<"h", "i">>), Js("string", <<" ", "h", "i", NL>>)}
      ChatReplies ==
        {[hasChoices |-> FALSE, choices |-> <<>>],
         [hasChoices |-> TRUE, choices |-> <<>>]}
        \cup {[hasChoices |-> TRUE, choices |-> <<c>>] : c \in Contents}
        \cup {[hasChoices |-> TRUE, choices |-> <<c, Js("string", <<"x">>)>>] :
                c \in Contents}
      GatewayReplies ==
        {[success |-> FALSE, hasData |-> FALSE, usage |-> FALSE,
          hasChoices |-> FALSE, choices |-> <<>>]}
        \cup {[success |-> TRUE, hasData |-> TRUE, usage |-> u,
               hasChoices |-> r.hasChoices, choices |-> r.choices] :
                u \in BOOLEAN, r \in ChatReplies}
      Answers ==
        {lead \o open \o payload \o close \o trail :
           lead \in {<<>>, <<" ">>},
           open \in {<<>>,
                     Fence \o <<NL>>,
                     Fence \o <<"j", "s", "o", "n", NL>>,
                     Fence \o <<"j", "s", "o", "n">>,
                     Fence \o <<"J", "S", "O", "N", NL>>,
                     Fence \o <<"j", "s", NL>>},
           payload \in {<<"{", "a", "}">>, <<"{", "a">>, <<"n">>, <<"{", "}">>},
           close \in {<<>>, Fence, <<NL>> \o Fence},
           trail \in {<<>>, <<NL>>}}
      ObjectReplies ==
        {r \in ChatReplies : Len(r.choices) < 2}
        \cup {[hasChoices |-> TRUE, choices |-> <<Js("string", a)>>] :
                a \in Answers}
      Descriptions ==
        {lead \o marker \o title \o rest :
           lead \in {<<>>, <<"s", "u", "b">>},
           marker \in {<<>>} \cup
             {word \o sep :
                word \in {<<"T", "i", "t", "l", "e">>, <<"t", "i", "t", "l", "e">>,
                          <<"T", "I", "T", "L", "E">>},
                sep \in {<<>>, <<":">>, <<":", " ">>, <<" ">>, <<":", NL>>}},
           title \in {<<>>, <<"R">>, <<"R", " ">>},
           rest \in {<<>>, <<NL, "d">>, <<NL, "d", NL>>, <<" ", "d", " ">>}}
      Prompts ==
        {[isString |-> TRUE, prompt |-> Js("undefined", <<>>)]}
        \cup {[isString |-> FALSE, prompt |-> p] :
                p \in {Js("undefined", <<>>), Js("string", <<>>),
                       Js("string", <<"Please analyze this image and provide a title and detailed description.">>),
                       Js("string", <<"What is the text in this image?">>)}}
      ImageReplies ==
        {r \in GatewayReplies : r.usage /\ Len(r.choices) < 2}
        \cup {[success |-> TRUE, hasData |-> TRUE, usage |-> TRUE,
               hasChoices |-> TRUE, choices |-> <<Js("string", d)>>] :
                d \in Descriptions}
      Inputs ==
        {[kind |-> "null", text |-> Js("undefined", <<>>)],
         [kind |-> "undefined", text |-> Js("undefined", <<>>)]}
        \cup {[kind |-> "string", text |-> Js("string", t)] :
                t \in {<<>>, <<" ", NL>>, <<"h", "i">>, <<" ", "h", "i">>}}
        \cup {[kind |-> "object", text |-> t] :
                t \in {Js("undefined", <<>>), Js("null", <<>>),
                       Js("number", <<"5">>), Js("string", <<>>),
                       Js("string", <<" ">>), Js("string", <<"h", "i">>)}}
      Embeddings ==
        {[kind |-> "undefined", items |-> <<>>],
         [kind |-> "string", items |-> <<>>],
         [kind |-> "array", items |-> <<>>],
         [kind |-> "array", items |-> <<3, 0, 7>>],
         [kind |-> "array", items |-> <<1, 0>>],
         [kind |-> "array", items |-> [i \in 1..768 |-> i % 3]]}
      EmbeddingReplies ==
        {[success |-> FALSE, hasData |-> FALSE, usage |-> FALSE,
          embedding |-> [kind |-> "undefined", items |-> <<>>]],
         [success |-> TRUE, hasData |-> FALSE, usage |-> FALSE,
          embedding |-> [kind |-> "undefined", items |-> <<>>]]}
        \cup {[success |-> TRUE, hasData |-> TRUE, usage |-> u, embedding |-> e] :
                u \in BOOLEAN, e \in Embeddings}
      TextParams ==
        [model : {<<>>, <<"o", "1">>, <<"g", "p", "t", "-", "4", "o">>},
         temperature : {Undefined, "0", "0.2"},
         frequencyPenalty : {Undefined, "0.5"},
         presencePenalty : {Undefined, "0.1"},
         stopSequences : {Undefined, "[]", "[END]"},
         maxTokens : {Undefined, "0", "100"},
         max_tokens : {Undefined, "50"}]
  IN \/ op = "none" /\ \E model \in ModelIds : ModelSupportsTemperature(model)
     \/ op = "none" /\ \E response \in ChatReplies : GenerateTextSettles(response)
     \/ op = "none" /\ \E response \in GatewayReplies, emit \in {"ok", "throws", "rejects"} :
          HandleTextSmall(response, emit)
     \/ op = "none" /\ \E response \in ObjectReplies : GenerateObjectSettles(response)
     \/ op = "none" /\ \E r \in ObjectReplies, emit \in {"ok", "throws"} :
          HandleObjectSmall([success |-> TRUE, hasData |-> TRUE, usage |-> TRUE,
                             hasChoices |-> r.hasChoices, choices |-> r.choices],
                            emit)
     \/ op = "none" /\ \E params \in Prompts, response \in ImageReplies,
           emit \in {"ok", "throws"} :
          HandleImageDescription("gatewayHandleImageDescription", params,
                                 response, emit)
     \/ op = "none" /\ \E params \in Prompts, response \in ImageReplies :
          HandleImageDescription("handleImageDescription", params, response, "ok")
     \/ op = "none" /\ \E params \in Inputs, response \in EmbeddingReplies,
                          emit \in {"ok", "throws", "rejects"} :
          HandleTextEmbedding(params, response, emit)
     \/ op = "none" /\ \E method \in {"generateText", "streamText", "describeImage",
                                         "handleTextSmall"},
                          params \in TextParams,
                          configured \in {<<"g", "p", "t", "-", "5">>,
                                          <<"g", "p", "t", "-", "4">>} :
          ChatBody(method, params, configured)
     \/ op = "none" /\ \E step \in {"fetch rejects", "text rejects", "resolved"},
                          message \in {<<"fetch failed">>, <<"terminated">>},
                          code \in Statuses,
                          text \in {<<"{", "a", "}">>, <<" ", "{", "}">>, <<"n">>,
                                    <<"0">>, <<"{">>, <<>>} :
          MakeRequest([step |-> step, message |-> message, status |-> code,
                       text |-> text])
     \/ op = "none" /\ \E stream \in BOOLEAN,
                          onStreamChunk \in {"absent", "ok", "throws"},
                          fragments \in {AllFragments(ls) : ls \in LineSeqs},
                          cutAt \in 0..MaxLines,
                          ending \in {"return", "throw"},
                          response \in ChatReplies :
          /\ cutAt <= Len(fragments)
          /\ ending = "return" => cutAt = Len(fragments)
          /\ HandleText([stream |-> stream, onStreamChunk |-> onStreamChunk],
                        SubSeq(fragments, 1, cutAt), ending, response)
     \/ op = "none" /\ \E modelType \in {"TEXT_SMALL", "TEXT_LARGE",
                                            "TEXT_EMBEDDING", "IMAGE"},
                          gatewayKey \in {Undefined, "", "gw-key"},
                          openaiKey \in {Undefined, "", "sk-key"},
                          configured \in {<<"openai/", "gpt-4o">>, <<"gpt-4o">>,
                                          <<"azure-", "openai/", "gpt-4o">>,
                                          <<"anthropic/", "claude">>},
                          text \in {<<>>, <<"h", "i">>},
                          size \in {<<Undefined>>, <<"512", "x", "512">>, <<"big">>},
                          ok \in BOOLEAN, usage \in BOOLEAN,
                          emit \in {"ok", "throws"} :
          AiGatewayPlugin(modelType, gatewayKey, openaiKey, configured,
                          [text |-> text, size |-> size],
                          [ok |-> ok, usage |-> usage], emit)

SpecCalls == InitCalls /\ [][NextCalls]_vars

\* ------------------------------------------------- GatewayProvider's cache
\* calls that can be in progress on one GatewayProvider at the same time
MaxCalls == 2

\* new GatewayProvider(): modelsCache = null, no call in progress
InitCache ==
  /\ TransportIdle /\ HostIdle /\ ResolveIdle /\ HandlerIdle
  /\ builder = "none" /\ config = <<>> /\ buildError = "none" /\ used = <<>>
  /\ op = "none" /\ arg = <<>> /\ result = <<>> /\ hostCalls = <<>>
  /\ modelsCache = [isNull |-> TRUE, data |-> <<>>]
  /\ inflight = [c \in 1..MaxCalls |->
                   [method |-> "none", force |-> FALSE, pc |-> "idle",
                    out |-> <<>>]]

\* listModels(force) up to its first await: return the cache, or issue the
\* GET of /models
ListModels(c, force) ==
  /\ inflight[c].pc \in {"idle", "done", "failed"}
  /\ inflight' = [inflight EXCEPT ![c] =
       IF ~modelsCache.isNull /\ ~force
       THEN [method |-> "listModels", force |-> force, pc |-> "done",
             out |-> modelsCache.data]
       ELSE [method |-> "listModels", force |-> force, pc |-> "get",
             out |-> <<>>]]
  /\ UNCHANGED <<transportVars, hostVars, resolveVars, handlerVars, builder,
                 config, buildError, used, callVars, hostCalls, modelsCache>>

\* chat(params) up to its first await: listModels(false) when params.model
\* is set, then the POST of /chat/completions
Chat(c, hasModel) ==
  /\ inflight[c].pc \in {"idle", "done", "failed"}
  /\ inflight' = [inflight EXCEPT ![c] =
       [method |-> "chat", force |-> FALSE,
        pc |-> IF hasModel /\ modelsCache.isNull THEN "get" ELSE "post",
        out |-> <<>>]]
  /\ UNCHANGED <<transportVars, hostVars, resolveVars, handlerVars, builder,
                 config, buildError, used, callVars, hostCalls, modelsCache>>

\* the awaited httpGet or httpPost of call c settles: a GET that resolved
\* stores res.data || [] in the cache, a GET that rejected is swallowed by
\* chat's empty catch and rejects listModels
HttpSettle(c, ok, data) ==
  LET me == inflight[c]
  IN /\ me.pc \in {"get", "post"}
     /\ modelsCache' = IF me.pc = "get" /\ ok
                       THEN [isNull |-> FALSE, data |-> data]
                       ELSE modelsCache
     /\ inflight' = [inflight EXCEPT ![c] =
          [me EXCEPT !.pc = IF me.pc = "get" /\ me.method = "chat" THEN "post"
                            ELSE IF ok THEN "done" ELSE "failed",
                     !.out = IF me.pc = "get" /\ ok THEN data ELSE <<>>]]
     /\ UNCHANGED <<transportVars, hostVars, resolveVars, handlerVars, builder,
                    config, buildError, used, callVars, hostCalls>>

NextCache ==
  \/ \E c \in 1..MaxCalls, force \in BOOLEAN : ListModels(c, force)
  \/ \E c \in 1..MaxCalls, hasModel \in BOOLEAN : Chat(c, hasModel)
  \/ \E c \in 1..MaxCalls, ok \in BOOLEAN,
        data \in {<<>>, <<"a">>, <<"a", "b">>} : HttpSettle(c, ok, data)

SpecCache == InitCache /\ [][NextCache]_vars

\* ------------------------------------------- concurrent calls of GatewayClient
\* Several request() and streamText() calls in flight at once. `controller`
\* and `timeoutId` are locals of each call (client.ts:29-30, 160-161), so each
\* call has its own timer, abort flag and connection in inflight[c].
InitPair ==
  /\ TransportIdle /\ HostIdle /\ ResolveIdle /\ HandlerIdle
  /\ builder = "none" /\ config = <<>> /\ buildError = "none" /\ used = <<>>
  /\ op = "none" /\ arg = <<>> /\ result = <<>> /\ hostCalls = <<>>
  /\ modelsCache = <<>>
  /\ inflight = [c \in 1..MaxCalls |->
                   [method |-> "none", pc |-> "idle", timer |-> "unset",
                    aborted |-> FALSE, conn |-> "none", exit |-> "none",
                    error |-> NoError]]

\* call c begins: new AbortController(), setTimeout, fetch
CallStart(c, method) ==
  /\ inflight[c].pc = "idle"
  /\ inflight' = [inflight EXCEPT ![c] =
       [@ EXCEPT !.method = method, !.pc = "fetch", !.timer = "armed",
                 !.conn = "open"]]
  /\ UNCHANGED <<transportVars, hostVars, resolveVars, handlerVars, builder,
                 config, buildError, used, callVars, hostCalls, modelsCache>>

\* one AbortController kept on the client: a timer that fires aborts every
\* call in flight
CallTimerFireShared(c) ==
  /\ inflight[c].timer = "armed"
  /\ inflight' = [d \in 1..MaxCalls |->
       IF d = c
       THEN [inflight[d] EXCEPT !.timer = "fired", !.aborted = TRUE,
                                !.conn = "closed"]
       ELSE IF inflight[d].pc \in {"fetch", "read"}
       THEN [inflight[d] EXCEPT !.aborted = TRUE, !.conn = "closed"]
       ELSE inflight[d]]
  /\ UNCHANGED <<transportVars, hostVars, resolveVars, handlerVars, builder,
                 config, buildError, used, callVars, hostCalls, modelsCache>>

\* the timer callback of call c: its own controller.abort()
CallTimerFire(c) ==
  /\ inflight[c].timer = "armed"
  /\ inflight' = [inflight EXCEPT ![c] =
       [@ EXCEPT !.timer = "fired", !.aborted = TRUE, !.conn = "closed"]]
  /\ UNCHANGED <<transportVars, hostVars, resolveVars, handlerVars, builder,
                 config, buildError, used, callVars, hostCalls, modelsCache>>

\* the await call c is suspended at settles: the aborted fetch or read rejects
\* with an AbortError, the transport fails, the reply is not 2xx, or it goes
\* well (a stream then goes on to read its body to the end); every way out
\* runs finally { clearTimeout(timeoutId) }, and request maps what it caught
CallSettle(c, how) ==
  LET me == inflight[c]
      caught(e) == IF me.method = "request" THEN CatchMap(e) ELSE e
      fails(e) == [me EXCEPT !.pc = "failed", !.exit = how, !.error = caught(e),
                             !.timer = ClearTimeout(me.timer),
                             !.conn = "closed"]
  IN /\ me.pc \in {"fetch", "read"}
     /\ (how = "abort") = me.aborted
     /\ how = "http" => me.pc = "fetch"
     /\ inflight' = [inflight EXCEPT ![c] =
          IF how = "abort" THEN fails(AbortError)
          ELSE IF how = "network" THEN fails(FetchFailed)
          ELSE IF how = "http" THEN fails(HttpError(500, StatusText(500)))
          ELSE IF me.method = "stream" /\ me.pc = "fetch"
          THEN [me EXCEPT !.pc = "read"]
          ELSE [me EXCEPT !.pc = "done", !.exit = how,
                          !.timer = ClearTimeout(me.timer),
                          !.conn = "closed"]]
     /\ UNCHANGED <<transportVars, hostVars, resolveVars, handlerVars, builder,
                    config, buildError, used, callVars, hostCalls, modelsCache>>

NextPair ==
  \/ \E c \in 1..MaxCalls, method \in {"request", "stream"} : CallStart(c, method)
  \/ \E c \in 1..MaxCalls : CallTimerFire(c)
  \/ \E c \in 1..MaxCalls, how \in {"abort", "network", "http", "ok"} :
       CallSettle(c, how)

SpecPair == InitPair /\ [][NextPair]_vars

\* ---------------------------------------------------- streaming properties
\* the complete (newline-terminated) lines of a byte sequence
CompleteLines(b) == Front(SplitLines(Decode(b, FALSE).text))

\* what streamText yields when the whole body arrives in a single read
OneRead(b) == AllFragments(CompleteLines(b))

\* C1: however the body is divided into reads, the fragments yielded so far
\* are a prefix of, and at the sentinel or end of body equal to, the
\* fragments yielded when the whole body arrives in one read.
C1_SplitInvariant ==
  call = "stream" =>
    /\ IsPrefix(yielded, OneRead(body))
    /\ exit \in {"eof", "sentinel"} => yielded = OneRead(body)

C1_Witness ==
  /\ call = "stream" /\ exit = "eof" /\ cut
  /\ Len(yielded) = 2

IsSentinelLine(line) == line = DataPrefix \o Sentinel

\* index of the first sentinel line of ls, or Len(ls) + 1
FirstSentinel(ls) ==
  IF \E i \in 1..Len(ls) : IsSentinelLine(ls[i])
  THEN CHOOSE i \in 1..Len(ls) :
         /\ IsSentinelLine(ls[i])
         /\ \A j \in 1..(i - 1) : ~IsSentinelLine(ls[j])
  ELSE Len(ls) + 1

\* a data line that carries a non-empty content fragment
IsContentLine(line) ==
  /\ StartsWith(line, DataPrefix)
  /\ JSONParse(Slice(line, 6)).kind = "object"
  /\ JSONParse(Slice(line, 6)).content # <<>>

\* a data line whose payload is not valid JSON
IsMalformedLine(line) ==
  /\ StartsWith(line, DataPrefix)
  /\ ~IsSentinelLine(line)
  /\ JSONParse(Slice(line, 6)).kind = "SyntaxError"

\* contents of the content lines of ls, in order
ContentsOf(ls) ==
  LET sel == SelectSeq(ls, IsContentLine)
  IN [i \in 1..Len(sel) |-> JSONParse(Slice(sel[i], 6)).content]

\* the lines the for-loop has already looked at
Processed ==
  LET got == CompleteLines(SubSeq(body, 1, pos))
  IN SubSeq(got, 1, Len(got) - Len(lines))

\* C2: once a sentinel line has been processed the generator has returned:
\* it is not waiting on reader.read() or at a yield, and nothing after the
\* sentinel was yielded, not even lines received in the same read.
C2_SentinelEnds ==
  (call = "stream" /\ \E i \in 1..Len(Processed) : IsSentinelLine(Processed[i]))
    => /\ pc = "done" /\ exit = "sentinel"
       /\ yielded = ContentsOf(SubSeq(Processed, 1, FirstSentinel(Processed) - 1))

C2_Witness ==
  /\ call = "stream" /\ exit = "sentinel"
  /\ \E i \in 1..Len(lines) : IsContentLine(lines[i])

\* C3: a malformed data line never makes streamText fail, and at the
\* sentinel or end of body every content line before the sentinel has been
\* yielded, in order, whatever malformed lines precede it.
C3_MalformedSkipped ==
  call = "stream" =>
    /\ error.name \notin {"SyntaxError", "TypeError"} \/ exit = "network"
    /\ exit \in {"eof", "sentinel"} =>
         LET all == CompleteLines(body)
         IN yielded = ContentsOf(SubSeq(all, 1, FirstSentinel(all) - 1))

C3_Witness ==
  /\ call = "stream" /\ exit = "eof"
  /\ LET all == CompleteLines(body)
     IN /\ Len(all) = 2
        /\ IsMalformedLine(all[1])
        /\ IsContentLine(all[2])
  /\ yielded # <<>>

\* ------------------------------------------------------ timeout and cleanup
\* C4: a call that is cut off by its timeout fails with
\* GatewayError("Request timeout") and its connection is aborted.
C4_TimeoutTyped ==
  exit = "abort" => (error = TimeoutError /\ conn = "closed")

\* C5: on every exit path of request and streamText the abort timer has been
\* cleared, so it can no longer fire.
C5_TimerCleared ==
  Finished => (timer = "cleared" /\ ~ENABLED TimerFire)

C5_Witness ==
  /\ call = "stream" /\ exit = "cancel" /\ ~aborted
  /\ timer = "cleared"

\* C6: when the consumer leaves the iteration early the connection is closed.
C6_CancelCloses ==
  exit = "cancel" => conn = "closed"

\* ----------------------------------------------------------- error mapping
\* C7: a non-2xx reply to request ends in a GatewayError carrying the HTTP
\* status, with the provider's error.message when the body is JSON with a
\* non-empty such field and the status text otherwise.
C7_HttpError ==
  (call = "request" /\ Finished /\ status # NoStatus /\ ~ResponseOk(status)) =>
    /\ error.name = "GatewayError"
    /\ error.statusCode = status
    /\ reply = "msg" => error.detail = "quota exceeded"
    /\ reply \in {"notjson", "null", "nofield", "errstring"} =>
         error.detail = StatusText(status)

C7_Witness ==
  /\ call = "request" /\ Finished /\ status = 404
  /\ reply = "msg" /\ error.detail = "quota exceeded"

Present == {p \in Providers : HasKey(ENV_KEYS(p))}

\* position of provider p in the enumeration order
IndexOf(order, p) == CHOOSE i \in DOMAIN order : order[i] = p

\* C9: the resolved provider is determined by the preferred provider and the
\* set of present credentials alone: preferred if present, else
\* vercel-gateway if present, else openrouter if present, else the first
\* present provider in enumeration order, else preferred; with only the
\* OpenRouter credential present it is openrouter.
C9_ResolutionOrder ==
  resolved # "none" =>
    /\ preferred \in Present => resolved = preferred
    /\ (preferred \notin Present /\ "vercel-gateway" \in Present) =>
         resolved = "vercel-gateway"
    /\ (preferred \notin Present /\ "vercel-gateway" \notin Present
        /\ "openrouter" \in Present) => resolved = "openrouter"
    /\ (preferred \notin Present /\ "vercel-gateway" \notin Present
        /\ "openrouter" \notin Present /\ Present # {}) =>
         /\ resolved \in Present
         /\ \A q \in Present : IndexOf(envKeys, resolved) <= IndexOf(envKeys, q)
    /\ Present = {} => resolved = preferred
    /\ Present = {"openrouter"} => resolved = "openrouter"

C9_Witness ==
  /\ resolved = "openrouter"
  /\ Present = {"openrouter"}
  /\ preferred = "openai"

\* ------------------------------------------------------------- credentials
\* the value found under key k: the runtime setting if truthy, else the
\* environment value
KeyValue(k) == IF Truthy(settings[k]) THEN String(settings[k]) ELSE env[k]

\* the keys of the precedence list that hold a non-empty value
UsableKeys == {i \in 1..Len(ApiKeyOrder) : Truthy(KeyValue(ApiKeyOrder[i]))}

\* C10: buildConfig yields the first non-empty value among the three keys in
\* precedence order, fails with the missing-credential error exactly when
\* none holds a value, and a handler that failed this way issued no request.
C10_ApiKeyPrecedence ==
  hpc # "idle" =>
    /\ (handlerError = MissingCredential) <=> (UsableKeys = {})
    /\ UsableKeys # {} =>
         /\ \E i \in UsableKeys :
              /\ \A j \in UsableKeys : i <= j
              /\ apiKey = KeyValue(ApiKeyOrder[i])
    /\ UsableKeys = {} => (hpc = "failed" /\ httpRequests = 0 /\ apiKey = "")

C10_Witness ==
  /\ hpc = "awaiting" /\ httpRequests = 1
  /\ ~Truthy(KeyValue("AI_GATEWAY_API_KEY"))
  /\ apiKey = "e-alias"
  /\ Truthy(KeyValue("VERCEL_OIDC_TOKEN"))

\* ----------------------------------------------------------- configuration
\* the value a lookup holds for field f: the first non-empty value under the
\* keys the builder reads for it (buildConfig alone reads a second key)
Level(lookup, f) ==
  LET ks == IF builder = "buildConfig" THEN FieldKeys[f] ELSE <<FieldKeys[f][1]>>
  IN IF Len(ks) > 1 /\ ~Truthy(lookup[ks[1]]) THEN lookup[ks[2]] ELSE lookup[ks[1]]

\* the hard-coded default of field f under the builder that ran
HardCoded(f) ==
  IF builder = "buildConfig" THEN DEFAULT_CONFIG[f]
  ELSE CASE f = "baseUrl" -> "https://gateway.ai.cloudflare.com/v1"
         [] f = "smallModel" -> "@cf/meta/llama-3.1-8b-instruct"
         [] f = "largeModel" -> "@cf/meta/llama-3.1-70b-instruct"
         [] f = "embeddingModel" -> "@cf/baai/bge-base-en-v1.5"
         [] f = "imageModel" -> "@cf/stabilityai/stable-diffusion-xl-base-1.0"

\* setting if present, else environment variable if present, else default
Layered(f) ==
  LET chosen == IF Truthy(Level(settings, f)) THEN String(Level(settings, f))
                ELSE IF Truthy(Level(env, f)) THEN Level(env, f)
                ELSE Undefined
  IN IF f \in {"embeddingDimensions", "timeoutMs"}
     THEN PositiveOr(chosen, HardCoded(f))
     ELSE JsOr(chosen, HardCoded(f))

ResolvedFields ==
  {"baseUrl", "smallModel", "largeModel", "embeddingModel", "imageModel",
   "embeddingDimensions", "timeoutMs"}

\* C11: every resolved field of a built configuration is the runtime setting
\* if present, else the environment variable if present, else the hard-coded
\* default, and a call uses its explicit override if one is given, else the
\* configured field.
C11_FieldPrecedence ==
  (builder # "none" /\ buildError = "none") =>
    /\ \A f \in ResolvedFields \cap DOMAIN config : config[f] = Layered(f)
    /\ used # <<>> =>
         /\ used.model = IF Truthy(used.params.model) THEN used.params.model
                         ELSE config[used.field]
         /\ used.method = "createEmbedding" =>
              used.dimensions = IF used.params.dimensions # 0
                                THEN used.params.dimensions
                                ELSE config.embeddingDimensions

\* C12: every configuration a builder returns has a non-empty apiKey and
\* non-empty small, large, embedding and image models.
C12_NonEmptyConfig ==
  (builder # "none" /\ buildError = "none") =>
    \A f \in {"apiKey", "smallModel", "largeModel", "embeddingModel", "imageModel"} :
      Truthy(config[f])

\* the characters are decimal digits with at most `dots` decimal points
RECURSIVE DigitsAndDots(_, _)
DigitsAndDots(cs, dots) ==
  \/ cs = <<>>
  \/ /\ cs # <<>>
     /\ IF Head(cs) = "." THEN dots > 0 /\ DigitsAndDots(Tail(cs), dots - 1)
        ELSE DigitValue(Head(cs)) >= 0 /\ DigitsAndDots(Tail(cs), dots)

\* the whole text is a decimal number: an optional sign, digits, and at most
\* one decimal point
IsNumeral(t) ==
  LET cs == SkipWhite(Chars(t))
      rest == IF cs # <<>> /\ Head(cs) \in {"-", "+"} THEN Tail(cs) ELSE cs
  IN /\ \E i \in 1..Len(rest) : DigitValue(rest[i]) >= 0
     /\ DigitsAndDots(rest, 1)

\* C13: the embedding dimensions and the timeout of a built configuration are
\* positive integers, and a configured value that is not a number or is not
\* positive gives the default (1536, 60000).
C13_DefensiveParse ==
  (builder = "buildConfig" /\ buildError = "none") =>
    \A f \in {"embeddingDimensions", "timeoutMs"} :
      LET t == getSetting(FieldKeys[f][1])
      IN /\ config[f] \in Nat /\ config[f] > 0
         /\ (Truthy(t) /\ (~IsNumeral(t) \/ parseInt(t).value <= 0)) =>
              config[f] = DEFAULT_CONFIG[f]

\* ------------------------------------------------------------ pure helpers
\* text p occurs in text s at some offset
RECURSIVE Occurs(_, _)
Occurs(p, s) == IsPrefix(p, s) \/ (s # <<>> /\ Occurs(p, Tail(s)))

\* C14: modelSupportsTemperature is false exactly when the lower-cased model
\* id contains o1, o3 or gpt-5 (every denylist entry contains one of these);
\* it is false for "gpt-5-mini" and true for "gpt-4o".
C14_TemperatureDenylist ==
  op = "modelSupportsTemperature" =>
    /\ result.value.kind = "false" <=>
         \E d \in {<<"o", "1">>, <<"o", "3">>, <<"g", "p", "t", "-", "5">>} :
            Occurs(d, toLowerCase(arg.model))
    /\ ~result.threw /\ result.value.kind \in {"true", "false"}
    /\ arg.model = <<"g", "p", "t", "-", "5", "-", "m", "i", "n", "i">> =>
         result = Returned(Js("false", <<>>))
    /\ arg.model = <<"g", "p", "t", "-", "4", "o">> =>
         result = Returned(Js("true", <<>>))

C14_Witness ==
  /\ op = "modelSupportsTemperature"
  /\ arg.model = <<"x", "/", "G", "P", "T", "-", "5", "-", "M", "I", "N", "I">>
  /\ result = Returned(Js("false", <<>>))

\* C15: generateText fails with an empty-response error when the body has no
\* choices or the first choice's content is null or absent, and otherwise
\* returns that content verbatim, the empty string included.
C15_TextNormalizer ==
  /\ op = "generateText" =>
       IF ~arg.response.hasChoices \/ arg.response.choices = <<>>
          \/ arg.response.choices[1] \in {Js("null", <<>>), Js("undefined", <<>>)}
       THEN result.threw /\ result.error = "GatewayError"
       ELSE result = Returned(arg.response.choices[1])
  /\ (op = "handleTextSmall" /\ getAIGatewayConfig.ok /\ arg.response.success
      /\ (arg.response.usage => arg.emit = "ok")) =>
       IF ~arg.response.hasChoices \/ arg.response.choices = <<>>
          \/ arg.response.choices[1] \in {Js("null", <<>>), Js("undefined", <<>>)}
       THEN result.threw
       ELSE result = Returned(arg.response.choices[1])

\* C16: an answer that is a JSON value inside a code fence, with or without a
\* language tag, gives the object the bare JSON value gives; a failed parse
\* raises an error whose message contains the answer text.
C16_FencedObject ==
  LET Tags == {<<>>, <<"j", "s", "o", "n">>, <<"J", "S", "O", "N">>, <<"j", "s">>}
      Payloads == {<<"{", "a", "}">>, <<"{", "}">>, <<"n">>}
      text == arg.response.choices[1].text
  IN (/\ op \in {"generateObject", "handleObjectSmall"}
      /\ op = "handleObjectSmall" => getAIGatewayConfig.ok /\ arg.emit = "ok"
      /\ arg.response.choices # <<>>
      /\ arg.response.choices[1].kind = "string") =>
       /\ \A tag \in Tags, p \in Payloads :
            trim(text) = Fence \o tag \o <<NL>> \o p \o <<NL>> \o Fence =>
              result = Returned(Js(JSONParse(p).kind, JSONParse(p).content))
       /\ result.threw => Occurs(text, result.message)

\* C17: with the default prompt, an answer whose first line starts with
\* "title:" in any letter case gives {title: the rest of that line,
\* description: the text after that line} (compared up to surrounding white
\* space), and an answer with no "title:" marker gives the placeholder title
\* and the answer unchanged as the description.
C17_TitleSplit ==
  LET text == arg.response.choices[1].text
      low == toLowerCase(text)
      marker == <<"t", "i", "t", "l", "e", ":">>
      breaks == {i \in 1..Len(text) : text[i] = NL} \cup {Len(text) + 1}
      eol == CHOOSE i \in breaks : \A j \in breaks : i <= j
  IN (/\ op \in {"handleImageDescription", "gatewayHandleImageDescription"}
      /\ IF op = "handleImageDescription" THEN buildConfig.ok
         ELSE getAIGatewayConfig.ok /\ arg.emit = "ok"
      /\ \/ Falsy(arg.params.prompt)
         \/ arg.params.prompt = Js("string", <<"Please analyze this image and provide a title and detailed description.">>)
      /\ arg.response.success /\ arg.response.choices # <<>>
      /\ arg.response.choices[1].kind = "string" /\ text # <<>>) =>
       /\ ~result.threw /\ result.value.kind = "object"
       /\ StartsWith(low, marker) =>
            /\ result.value.title = trim(SubSeq(text, 7, eol - 1))
            /\ result.value.description = trim(SubSeq(text, eol + 1, Len(text)))
       /\ ~Occurs(marker, low) =>
            /\ result.value.title = <<"Image Analysis">>
            /\ result.value.description = text

\* C18: a caller's prompt that differs from the default analysis prompt makes
\* the image-description handler return the model's text itself, not a
\* {title, description} pair.
C18_CustomPromptRaw ==
  (/\ op \in {"handleImageDescription", "gatewayHandleImageDescription"}
   /\ IF op = "handleImageDescription" THEN buildConfig.ok
      ELSE getAIGatewayConfig.ok /\ arg.emit = "ok"
   /\ ~arg.params.isString /\ ~Falsy(arg.params.prompt)
   /\ arg.params.prompt # Js("string", <<"Please analyze this image and provide a title and detailed description.">>)
   /\ arg.response.success /\ arg.response.choices # <<>>
   /\ arg.response.choices[1].kind = "string"
   /\ arg.response.choices[1].text # <<>>) =>
    result = Returned(arg.response.choices[1])

\* C19: handleTextEmbedding never throws; a null input, an invalid input, an
\* empty text, a failed request and a response without an embedding array
\* each give the 768-long zero vector led by that class's sentinel (0.1, 0.2,
\* 0.3, 0.4, 0.5), and a missing configuration gives such a vector too.
C19_ResilientEmbedding ==
  LET params == arg.params
      response == arg.response
      noText == \/ params.kind = "undefined"
                \/ params.kind = "object" /\ params.text.kind # "string"
      blank == ~noText /\ params.kind # "null" /\ trim(params.text.text) = <<>>
      usable == ~noText /\ params.kind # "null" /\ ~blank
      failed == ~response.success \/ ~response.hasData
  IN op = "handleTextEmbedding" =>
       /\ ~result.threw
       /\ ~getAIGatewayConfig.ok =>
            \E s \in 1..5 : result.value = fallbackVector(s)
       /\ getAIGatewayConfig.ok =>
            /\ params.kind = "null" => result.value = fallbackVector(1)
            /\ noText => result.value = fallbackVector(2)
            /\ blank => result.value \in {fallbackVector(2), fallbackVector(3)}
            /\ (usable /\ failed) => result.value = fallbackVector(4)
            /\ (usable /\ ~failed /\ response.embedding.kind # "array") =>
                 result.value = fallbackVector(5)

\* C20: whatever runtime.emitEvent does (return, throw, return a promise that
\* rejects), a handler gives the caller the result it gives when emitEvent
\* succeeds.
C20_EmitNeverMasks ==
  LET primary ==
        CASE op = "handleTextSmall" -> handleTextSmall(arg.response, "ok")
          [] op = "handleObjectSmall" -> handleObjectSmall(arg.response, "ok")
          [] op = "gatewayHandleImageDescription" ->
               gatewayHandleImageDescription(arg.params, arg.response, "ok")
          [] op = "handleTextEmbedding" ->
               handleTextEmbedding(arg.params, arg.response, "ok")
  IN (/\ op \in {"handleTextSmall", "handleObjectSmall",
                 "gatewayHandleImageDescription", "handleTextEmbedding"}
      /\ ~primary.threw) =>
       result = primary

\* ---------------------------------------------------------- provider cache
\* C21: listModels(false) issues its GET only while the cache is null; a
\* populated cache is replaced only when a listModels(true) call's GET
\* resolves; a GET that fails leaves the cache as it was.
C21_CacheRefresh ==
  [][\A c \in 1..MaxCalls :
       LET before == inflight[c]
           after == inflight'[c]
       IN /\ (before.pc # "get" /\ after.pc = "get" /\ ~after.force) =>
               modelsCache.isNull
          /\ (before.pc = "get" /\ after.pc # "get"
              /\ ~modelsCache.isNull /\ modelsCache' # modelsCache) =>
               before.method = "listModels" /\ before.force
          /\ (before.pc = "get" /\ after.pc = "failed") =>
               modelsCache' = modelsCache]_vars

C23_ParamsRespected ==
  LET params == arg.params
      sent == result.value
  IN (/\ op = "chatBody"
      /\ arg.method \in {"generateText", "streamText", "handleTextSmall"}
      /\ modelSupportsTemperature(sent.model)) =>
       /\ params.temperature # Undefined => sent.temperature = params.temperature
       /\ params.stopSequences \notin {Undefined, "[]"} =>
            sent.stop = params.stopSequences
       /\ params.frequencyPenalty # Undefined =>
            sent.frequency_penalty = params.frequencyPenalty
       /\ params.presencePenalty # Undefined =>
            sent.presence_penalty = params.presencePenalty

\* C27: a body GatewayClient builds for a model that does not support
\* temperature has no temperature, frequency_penalty, presence_penalty, stop
\* or max_tokens, and carries a supplied maxTokens as max_completion_tokens.
C27_ReasoningModelBody ==
  LET sent == result.value
  IN (/\ op = "chatBody"
      /\ arg.method \in {"generateText", "streamText", "describeImage"}
      /\ ~modelSupportsTemperature(sent.model)) =>
       /\ sent.temperature = Undefined /\ sent.frequency_penalty = Undefined
       /\ sent.presence_penalty = Undefined /\ sent.stop = Undefined
       /\ sent.max_tokens = Undefined
       /\ arg.params.maxTokens # Undefined =>
            sent.max_completion_tokens = arg.params.maxTokens

\* C24: makeRequest never throws; it resolves with success and data present
\* only for a 2xx reply whose body parsed, and otherwise with success false, a
\* non-empty error string and no data; success never comes with data absent
\* or null
C24_DiscriminatedResult ==
  op = "makeRequest" =>
    LET settled == arg.reply
        parses == JSONParse(trim(settled.text)).kind # "SyntaxError"
        good == settled.step = "resolved" /\ ResponseOk(settled.status) /\ parses
    IN /\ ~result.threw
       /\ result.value.success = good
       /\ result.value.success =>
            /\ result.value.data.kind \notin {"undefined", "null"}
            /\ result.value.error.kind = "undefined"
       /\ ~result.value.success =>
            /\ result.value.data.kind = "undefined"
            /\ result.value.error.kind = "string"
            /\ result.value.error.text \notin {<<>>, <<"">>}

\* C25: streamText reads from the connection only while the consumer waits
\* for a fragment: a read is outstanding only when every fragment of the
\* bytes received so far has been delivered, each step delivers at most one
\* fragment and then suspends, and nothing is read while the generator is
\* suspended at a yield
C25_PullBased ==
  /\ [](call = "stream" /\ pc = "read" =>
         /\ lines = <<>>
         /\ yielded = ContentsOf(CompleteLines(SubSeq(body, 1, pos))))
  /\ [][/\ pos' # pos => pc = "read"
        /\ pc = "yield" => pos' = pos /\ buffer' = buffer
        /\ yielded' # yielded =>
             /\ pc' = "yield"
             /\ Len(yielded') = Len(yielded) + 1]_vars

\* the consumer holds one fragment while another, received in the same read,
\* waits in the generator
C25_Witness ==
  /\ call = "stream" /\ pc = "yield" /\ yielded # <<>>
  /\ \E i \in 1..Len(lines) : IsContentLine(lines[i])

\* C30: a handler of the ai-sdk plugin calls the gateway with the configured
\* model id whenever AI_GATEWAY_API_KEY is set, else OpenAI with the model id
\* less its 'openai/' prefix when OPENAI_API_KEY is set, else it fails with
\* 'AI_GATEWAY_API_KEY or OPENAI_API_KEY is required' and calls no provider;
\* an emitted event names the backend that was called
C30_BackendByCredentials ==
  op = "aiGatewayPlugin" =>
    LET providerCalls == SelectSeq(hostCalls, LAMBDA c : c.fn # "emitEvent")
        events == SelectSeq(hostCalls, LAMBDA c : c.fn = "emitEvent")
        unprefixed == IF arg.model # <<>> /\ Head(arg.model) = "openai/"
                      THEN Tail(arg.model) ELSE arg.model
    IN /\ Truthy(arg.gatewayKey) =>
            \A i \in 1..Len(providerCalls) :
               providerCalls[i].given = <<"gateway">> \o arg.model
       /\ ~Truthy(arg.gatewayKey) /\ Truthy(arg.openaiKey) =>
            \A i \in 1..Len(providerCalls) :
               providerCalls[i].given = <<"openai">> \o unprefixed
       /\ ~Truthy(arg.gatewayKey) /\ ~Truthy(arg.openaiKey) =>
            /\ providerCalls = <<>>
            /\ result = Threw("Error",
                              <<"AI_GATEWAY_API_KEY or OPENAI_API_KEY is required">>)
       /\ \A i \in 1..Len(events) :
            /\ providerCalls # <<>>
            /\ events[i].given =
                 <<IF Head(providerCalls[1].given) = "gateway"
                   THEN "ai-gateway" ELSE "openai">>

\* C28: handleTextSmall and handleTextLarge take the streaming path only when
\* stream is true and onStreamChunk is given; there onStreamChunk is called
\* once for each fragment streamText yields, in order and with a non-empty
\* string, and the string returned is those fragments joined
C28_StreamChunks ==
  op = "handleText" =>
    LET streaming == arg.params.stream /\ arg.params.onStreamChunk # "absent"
        passed == [i \in 1..Len(hostCalls) |-> hostCalls[i].given]
        RECURSIVE Concat(_)
        Concat(ss) == IF ss = <<>> THEN <<>> ELSE Head(ss) \o Concat(Tail(ss))
    IN /\ ~streaming => hostCalls = <<>>
       /\ \A i \in 1..Len(hostCalls) :
            /\ hostCalls[i].fn = "onStreamChunk"
            /\ passed[i] # <<>>
       /\ IsPrefix(passed, arg.fragments)
       /\ streaming /\ arg.params.onStreamChunk = "ok" => passed = arg.fragments
       /\ streaming /\ ~result.threw =>
            /\ passed = arg.fragments
            /\ result.value = Js("string", Concat(passed))

\* two fragments were passed on and their concatenation returned
C28_Witness ==
  /\ op = "handleText" /\ ~result.threw
  /\ Len(hostCalls) = 2 /\ hostCalls[1].given # hostCalls[2].given
  /\ result.value.text = hostCalls[1].given \o hostCalls[2].given

\* C29: a handler calls emitEvent at most once, and only after the provider
\* call succeeded, the response was normalized and usage data was present;
\* when the event went out the handler returns its value, never an error or a
\* failure or fallback value
C29_EventOnlyOnSuccess ==
  op \in {"handleTextSmall", "handleObjectSmall", "gatewayHandleImageDescription",
          "handleImageDescription", "handleTextEmbedding", "aiGatewayPlugin"} =>
    LET events == SelectSeq(hostCalls, LAMBDA c : c.fn = "emitEvent")
        succeeded == IF op = "aiGatewayPlugin"
                     THEN arg.settled.ok /\ arg.settled.usage
                     ELSE /\ arg.response.success /\ arg.response.hasData
                          /\ arg.response.usage
        fallback ==
          /\ ~result.threw
          /\ \/ /\ op = "gatewayHandleImageDescription"
                /\ result.value.kind = "object"
                /\ result.value.title = <<"Failed to analyze image">>
             \/ /\ op = "handleTextEmbedding"
                /\ \E k \in 1..5 : result.value = fallbackVector(k)
    IN /\ Len(events) <= 1
       /\ events # <<>> => succeeded
       /\ events # <<>> /\ events[1].outcome # "throws" =>
            ~result.threw /\ ~fallback
       /\ result.threw /\ result.message # <<"emitEvent failed">> => events = <<>>
       /\ fallback => events = <<>>

\* an embedding came back with usage data and the event went out
C29_Witness ==
  /\ op = "handleTextEmbedding" /\ ~result.threw
  /\ hostCalls # <<>> /\ hostCalls[1].fn = "emitEvent"
  /\ hostCalls[1].outcome = "ok"

====
